---- MODULE Spec2Model ----
(***************************************************************************)
(* A model of the pipeline coordination substrate of the medical-coding    *)
(* dataset generator: the adaptive batch controller (chapter_2.py,         *)
(* plugin_adapter.py), the prediction stages and their result tables       *)
(* (chapter_2.py, chapter_3.py, db_manager.py) and the run lock of the     *)
(* schedulers (generate_dataset.py, dataset_generation.py).                *)
(*                                                                         *)
(* Each subsystem has its own variables, its own actions and its own       *)
(* specification (SpecCtl, SpecLock, SpecPred, SpecRag, SpecRev); the      *)
(* variables of the other subsystems stay at their initial values.         *)
(***************************************************************************)
EXTENDS Integers, Sequences, FiniteSets, TLC

VARIABLES
    \* ---- adaptive batch controller, one stage invocation --------------
    ctl_pc,          \* "off" | "ready" (at the loop head) | "batch" (a batch is in flight)
    ctl_driver,      \* who constructed the controller: "none" | "scheduler" | "cli" | "plugin"
    batch_manager,   \* the controller's fields
    batch_size,      \* the size the batch in flight was requested with
    first_batch,     \* size of the first batch requested by this invocation (0: none yet)
    adj_rate,        \* the success rate <<succeeded, attempted>> of the last adjust call
    adj_before,      \* the controller's fields right before the last adjust call
    adj_mild_from,   \* the size before the adjust call preceding the last one, when
                     \* that call had 0.5 <= rate < 0.7 (0 otherwise)
    adj_high_run,    \* how many adjust calls with rate >= 0.9 the current run of such
                     \* calls has; a run ends at a call with rate < 0.9 and at its
                     \* third call
    adj_run_from     \* the size before the first call of that run (0: no run)

VARIABLES
    \* ---- the run lock of the schedulers ------------------------------
    pc,          \* per Scheduler process: its position in main
    prog,        \* per process: the script it runs ("" before it starts)
    restart,     \* per process: started with --restart
    lock_file,   \* per script: NoFile, or the pid whose acquire wrote the file (the
                 \* content "pid, timestamp" of a write; a process writes at most once)
    victim,      \* per process: the pid kill_existing_process read from the lock file
    workers,     \* per process: its experiment threads are running
    ended,       \* per process: how it ended ("" while it has not)
    acquired,    \* per process: acquire_lock / create_lock_file succeeded
    blocked,     \* per process: the acquire found the lock file present
    ran_stage,   \* per process: it started a round (stage work, store access)
    lock_ops     \* per process: it wrote or removed a lock file

lockVars == <<pc, prog, restart, lock_file, victim, workers, ended, acquired, blocked,
              ran_stage, lock_ops>>

VARIABLES
    \* ---- the prediction experiment and its result table ---------------
    model_predictions,  \* the table: for every possible row, how many copies it holds
    exp,                \* per experiment worker: the locals of its run_experiment call
    last_save           \* the latest save_prediction_with_tokens: the row, and whether
                        \* the table held a row with its key before

predVars == <<model_predictions, exp, last_save>>

VARIABLES
    \* ---- the retrieval-augmented experiment and its result tables ------
    rag_predictions,    \* per corpus mode, the table rag_<mode>_predictions: for
                        \* every key (generated_desc_id, model_name), its number of rows
    rag                 \* the locals of the run_rag_experiment call in progress

ragVars == <<rag_predictions, rag>>

VARIABLES
    \* ---- the reverse-prediction stage ----------------------------------
    reverse_predictions,  \* the keys (generated_desc_id, predictor_model) that have a row
    rev,                  \* the locals of the run_reverse_predictions call in progress
    prev_call             \* per predictor model: what its latest ended call had selected
                          \* and persisted, and whether it was interrupted

revVars == <<reverse_predictions, rev, prev_call>>

VARIABLES
    \* ---- one batch of a stage, unit by unit ----------------------------
    unit_loop,       \* the locals of the loop over the units of the batch
    unit_calls,      \* per unit: predictor calls made for it in this batch
    unit_rows,       \* per unit: the confidence of its result row (NoRow: no row)
    unit_failed,     \* per unit: its predictor call failed or gave no usable output
    persist_failed,  \* per unit: the store write of its result failed
    adjust_fed,      \* the success rate <<succeeded, attempted>> passed to adjust
    batch_metrics    \* the batch_metrics row of the batch: open, closed, its counts

batchVars == <<unit_loop, unit_calls, unit_rows, unit_failed, persist_failed, adjust_fed,
               batch_metrics>>

VARIABLES
    \* ---- the rounds of one Scheduler that holds the lock ----------------
    rd_pc,             \* "loop" (between rounds) | "ch2" | "ch3" | "stopped"
    sub_stage,         \* in Chapter 3: the index of the sub-stage being run (0: none)
    main_progress,     \* units the sub-stage being run has persisted
    thread_running,    \* per experiment thread of Chapter 2: it has not ended
    thread_progress,   \* per experiment thread: units of its batch persisted
    lock_held,         \* release_lock has not been called
    sub_stages_run,    \* the sub-stages of Chapter 3 called in this round
    sub_stages_failed, \* those among them that raised
    after_ch2_failure, \* how far the loop got since Chapter 2 last failed
    cancelled,         \* Ctrl-C arrived; where, and with which batches in flight
    batches_after_cancel  \* per thread: batches it completed after Ctrl-C

roundVars == <<rd_pc, sub_stage, main_progress, thread_running, thread_progress,
               lock_held, sub_stages_run, sub_stages_failed, after_ch2_failure,
               cancelled, batches_after_cancel>>

VARIABLES
    \* ---- one invocation of a predictor gateway ---------------------------
    gw_pc,             \* "idle" | "running" (inside subprocess.run) | "returned" | "raised"
    gw_call,           \* the gateway invoked and its timeout
    predictor_calls,   \* subprocess.run calls of the invocation
    gw_cause,          \* how subprocess.run ended: "exit 0" | "exit nonzero" | "timeout" | "error"
    gw_result          \* the dict returned

gwVars == <<gw_pc, gw_call, predictor_calls, gw_cause, gw_result>>

VARIABLES
    \* ---- one similarity query on the retrieval engine ---------------------
    corpus_metadata,   \* MedicalCodingRAG.corpus_metadata, in insertion order
    similarities,      \* the query's similarity to each document
    find_args,         \* top_k, exclude_code, source_filter of the query
    top_indices,       \* np.argsort(similarities)[::-1]
    find_results       \* the list returned by find_similar (results)

findVars == <<corpus_metadata, similarities, find_args, top_indices, find_results>>

VARIABLES
    \* ---- the retrieval engine's cache directory --------------------------
    rag_cache,         \* per cache suffix: the build that wrote each artifact (0: no file)
    build_rows,        \* per build of a corpus: its number of documents
    rag_engine,        \* per process: its MedicalCodingRAG object and its _save_cache
    cache_write        \* the last artifact written: by which corpus mode, to which suffix

cacheVars == <<rag_cache, build_rows, rag_engine, cache_write>>

VARIABLES
    \* ---- variant descriptions (chapter 2.1) -------------------------------
    generated_descriptions,  \* per catalog code: the detail levels stored for the generator model
    variant_pc,              \* "idle" (between rounds) | "generating" (inside subprocess.run)
    codes_to_process,        \* the rows fetched by the pending query of the round
    variant_result           \* per code: the dict last returned for it ("none" before)

variantVars == <<generated_descriptions, variant_pc, codes_to_process, variant_result>>

VARIABLES
    \* ---- the dense-variant tables (chapters 3.2 to 3.4) -------------------
    dv_schema,               \* dense_variants: "none" | "variant_type" | "detail_level"
    dense_variants,          \* committed rows of dense_variants
    dense_txn,               \* rows inserted on db.conn and not yet committed
    dense_codes,             \* codes left in the running generate_dense_variants
    drp_schema,              \* dense_rag_predictions: "none" | "no model_name" | "model_name"
    dense_rag_predictions    \* committed rows of dense_rag_predictions

denseVars == <<dv_schema, dense_variants, dense_txn, dense_codes, drp_schema,
               dense_rag_predictions>>

ctlVars == <<ctl_pc, ctl_driver, batch_manager, batch_size, first_batch, adj_rate,
            adj_before, adj_mild_from, adj_high_run, adj_run_from>>

vars == <<ctlVars, lockVars, predVars, ragVars, revVars, batchVars, roundVars, gwVars, findVars,
          cacheVars, variantVars, denseVars>>

Max(a, b) == IF a >= b THEN a ELSE b
Min(a, b) == IF a <= b THEN a ELSE b

(***************************************************************************)
(* Success rates.  The code computes batch_succeeded / len(batch) as a     *)
(* float and compares it with 0.5, 0.7 and 0.9.  A rate is kept here as    *)
(* the pair <<succeeded, attempted>> and compared exactly, in tenths.      *)
(***************************************************************************)
SevereBelow == 5     \* success_rate < 0.5
MildBelow == 7       \* success_rate < 0.7
GrowFrom == 9        \* success_rate >= 0.9
MildThreshold == 1   \* consecutive_failures >= 1
GrowThreshold == 3   \* consecutive_successes >= 3
DefaultMaxBatchSize == 20
SchedulerInitialBatchSize == 10
PluginInitialBatchSize == 1
PluginMaxBatchSize == 20

\* rate < tenths/10
RateBelow(rate, tenths) == rate[1] * 10 < tenths * rate[2]

\* AdaptiveBatchManager.__init__
NewBatchManager(initial_batch_size, max_batch_size) ==
    [current_batch_size |-> initial_batch_size,
     max_batch_size |-> max_batch_size,
     consecutive_successes |-> 0,
     consecutive_failures |-> 0]

\* PluginAdapter.__init__: the controller fields of the adapter
NewPluginAdapter ==
    [current_batch_size |-> PluginInitialBatchSize,
     max_batch_size |-> PluginMaxBatchSize,
     consecutive_successes |-> 0,
     consecutive_failures |-> 0]

\* a severe branch that forgets to reset the success streak
AdjustSevereKeepsStreak(m) ==
    [m EXCEPT !.current_batch_size = Max(1, m.current_batch_size \div 2),
              !.consecutive_failures = 0]

\* adjust, branch success_rate < 0.5
AdjustSevere(m) ==
    [m EXCEPT !.current_batch_size = Max(1, m.current_batch_size \div 2),
              !.consecutive_failures = 0,
              !.consecutive_successes = 0]

\* a mild branch that reacts only to the second mediocre batch in a row
AdjustMildAfterTwo(m) ==
    LET failures == m.consecutive_failures + 1
    IN  IF failures >= MildThreshold + 1
        THEN [m EXCEPT !.consecutive_successes = 0,
                       !.current_batch_size = Max(1, m.current_batch_size - 2),
                       !.consecutive_failures = 0]
        ELSE [m EXCEPT !.consecutive_successes = 0,
                       !.consecutive_failures = failures]

\* adjust, branch success_rate < 0.7
AdjustMild(m) ==
    LET failures == m.consecutive_failures + 1
    IN  IF failures >= MildThreshold
        THEN [m EXCEPT !.consecutive_successes = 0,
                       !.current_batch_size = Max(1, m.current_batch_size - 2),
                       !.consecutive_failures = 0]
        ELSE [m EXCEPT !.consecutive_successes = 0,
                       !.consecutive_failures = failures]

\* a growth branch that grows on the second good batch in a row
AdjustGrowAfterTwo(m) ==
    LET successes == m.consecutive_successes + 1
    IN  IF successes >= GrowThreshold - 1
        THEN [m EXCEPT !.consecutive_failures = 0,
                       !.current_batch_size = Min(m.max_batch_size, m.current_batch_size + 1),
                       !.consecutive_successes = 0]
        ELSE [m EXCEPT !.consecutive_failures = 0,
                       !.consecutive_successes = successes]

\* adjust, branch success_rate >= 0.9
AdjustGrow(m) ==
    LET successes == m.consecutive_successes + 1
    IN  IF successes >= GrowThreshold
        THEN [m EXCEPT !.consecutive_failures = 0,
                       !.current_batch_size = Min(m.max_batch_size, m.current_batch_size + 1),
                       !.consecutive_successes = 0]
        ELSE [m EXCEPT !.consecutive_failures = 0,
                       !.consecutive_successes = successes]

\* a neutral branch that leaves the success streak alone
AdjustHoldKeepsStreak(m) ==
    [m EXCEPT !.consecutive_failures = 0]

\* adjust, else branch (70-90% success)
AdjustHold(m) ==
    [m EXCEPT !.consecutive_successes = 0, !.consecutive_failures = 0]

\* AdaptiveBatchManager.adjust
Adjust(m, success_rate) ==
    IF RateBelow(success_rate, SevereBelow) THEN AdjustSevere(m)
    ELSE IF RateBelow(success_rate, MildBelow) THEN AdjustMild(m)
    ELSE IF ~RateBelow(success_rate, GrowFrom) THEN AdjustGrow(m)
    ELSE AdjustHold(m)

\* PluginAdapter._adjust_batch_size
PluginAdjust(m, success_rate) ==
    IF RateBelow(success_rate, SevereBelow)
    THEN [m EXCEPT !.current_batch_size = Max(1, m.current_batch_size \div 2),
                   !.consecutive_failures = 0,
                   !.consecutive_successes = 0]
    ELSE IF RateBelow(success_rate, MildBelow)
    THEN IF m.consecutive_failures + 1 >= MildThreshold
         THEN [m EXCEPT !.consecutive_successes = 0,
                        !.current_batch_size = Max(1, m.current_batch_size - 2),
                        !.consecutive_failures = 0]
         ELSE [m EXCEPT !.consecutive_successes = 0,
                        !.consecutive_failures = m.consecutive_failures + 1]
    ELSE IF ~RateBelow(success_rate, GrowFrom)
    THEN IF m.consecutive_successes + 1 >= GrowThreshold
         THEN [m EXCEPT !.consecutive_failures = 0,
                        !.current_batch_size = Min(m.max_batch_size, m.current_batch_size + 1),
                        !.consecutive_successes = 0]
         ELSE [m EXCEPT !.consecutive_failures = 0,
                        !.consecutive_successes = m.consecutive_successes + 1]
    ELSE [m EXCEPT !.consecutive_successes = 0, !.consecutive_failures = 0]

\* AdaptiveBatchManager.get_size / PluginAdapter.get_adaptive_batch_size
GetSize(m) == m.current_batch_size

(***************************************************************************)
(* The stage drivers of the controller.                                    *)
(***************************************************************************)
\* the largest --batch-size a command line of chapter_2.py is given here
MaxCliBatchSize == 22
CliBatchSizes == {1, SchedulerInitialBatchSize, MaxCliBatchSize}

NoRate == <<0, 0>>
NoManager == NewBatchManager(0, 0)

CtlInit ==
    /\ ctl_pc = "off"
    /\ ctl_driver = "none"
    /\ batch_manager = NoManager
    /\ batch_size = 0
    /\ first_batch = 0
    /\ adj_rate = NoRate
    /\ adj_before = NoManager
    /\ adj_mild_from = 0
    /\ adj_high_run = 0
    /\ adj_run_from = 0

\* chapter_2.generate_dataset -> MedicalCodingSystem.run_experiment(initial_batch_size=10)
\*   -> run_constrained_* -> run_experiment: AdaptiveBatchManager(initial_batch_size)
StartByScheduler ==
    /\ ctl_pc = "off"
    /\ ctl_pc' = "ready"
    /\ ctl_driver' = "scheduler"
    /\ batch_manager' = NewBatchManager(SchedulerInitialBatchSize, DefaultMaxBatchSize)
    /\ batch_size' = 0
    /\ first_batch' = 0
    /\ adj_rate' = NoRate
    /\ adj_before' = NoManager
    /\ adj_mild_from' = 0
    /\ adj_high_run' = 0
    /\ adj_run_from' = 0

\* chapter_2.main: run_experiment(args.experiment, args.batch_size, args.max_items)
StartByCli ==
    /\ ctl_pc = "off"
    /\ \E b \in CliBatchSizes :
         batch_manager' = NewBatchManager(b, DefaultMaxBatchSize)
    /\ ctl_pc' = "ready"
    /\ ctl_driver' = "cli"
    /\ batch_size' = 0
    /\ first_batch' = 0
    /\ adj_rate' = NoRate
    /\ adj_before' = NoManager
    /\ adj_mild_from' = 0
    /\ adj_high_run' = 0
    /\ adj_run_from' = 0

\* PluginAdapter(plugin_instance, db)
StartPlugin ==
    /\ ctl_pc = "off"
    /\ ctl_pc' = "ready"
    /\ ctl_driver' = "plugin"
    /\ batch_manager' = NewPluginAdapter
    /\ batch_size' = 0
    /\ first_batch' = 0
    /\ adj_rate' = NoRate
    /\ adj_before' = NoManager
    /\ adj_mild_from' = 0
    /\ adj_high_run' = 0
    /\ adj_run_from' = 0

\* run_experiment: batch_size = batch_manager.get_size(); SELECT ... LIMIT batch_size
\* (PluginAdapter: get_next_batch(get_adaptive_batch_size()))
\* The loop goes on while items_processed < max_items: chapter_2.generate_dataset
\* passes max_items = 1, so a Scheduler-driven invocation requests one batch only;
\* the command line's --max-items and the adapter's max_items allow more.
RequestBatch ==
    /\ ctl_pc = "ready"
    /\ ctl_driver = "scheduler" => first_batch = 0
    /\ ctl_pc' = "batch"
    /\ batch_size' = GetSize(batch_manager)
    /\ first_batch' = IF first_batch = 0 THEN GetSize(batch_manager) ELSE first_batch
    /\ UNCHANGED <<ctl_driver, batch_manager, adj_rate, adj_before, adj_mild_from,
                   adj_high_run, adj_run_from>>

\* end of a batch of n <= batch_size units of which k succeeded:
\* success_rate = batch_succeeded / len(batch); batch_manager.adjust(success_rate)
EndBatch ==
    /\ ctl_pc = "batch"
    /\ \E n \in 1..batch_size : \E k \in 0..n :
         /\ adj_rate' = <<k, n>>
         /\ adj_high_run' = IF 10 * k < 9 * n THEN 0
                            ELSE IF adj_high_run \in {0, 3} THEN 1
                            ELSE adj_high_run + 1
         /\ adj_run_from' = IF 10 * k < 9 * n THEN 0
                            ELSE IF adj_high_run \in {0, 3}
                                 THEN batch_manager.current_batch_size
                            ELSE adj_run_from
         /\ batch_manager' = IF ctl_driver = "plugin"
                             THEN PluginAdjust(batch_manager, <<k, n>>)
                             ELSE Adjust(batch_manager, <<k, n>>)
    /\ adj_before' = batch_manager
    /\ adj_mild_from' = IF /\ adj_rate # NoRate
                           /\ ~RateBelow(adj_rate, SevereBelow)
                           /\ RateBelow(adj_rate, MildBelow)
                        THEN adj_before.current_batch_size
                        ELSE 0
    /\ ctl_pc' = "ready"
    /\ UNCHANGED <<ctl_driver, batch_size, first_batch>>

\* the stage invocation returns or the process stops: the controller lives in
\* memory only, nothing of it is kept
StageEnds ==
    /\ ctl_pc \in {"ready", "batch"}
    /\ ctl_pc' = "off"
    /\ ctl_driver' = "none"
    /\ batch_manager' = NoManager
    /\ batch_size' = 0
    /\ first_batch' = 0
    /\ adj_rate' = NoRate
    /\ adj_before' = NoManager
    /\ adj_mild_from' = 0
    /\ adj_high_run' = 0
    /\ adj_run_from' = 0

(***************************************************************************)
(* The run lock.  Scheduler processes are started from generate_dataset.py *)
(* (lock file .generate_dataset.lock, optional --restart) or from          *)
(* dataset_generation.py (lock file .dataset_generation.lock).  Every file *)
(* system call and every signal is one step, so that the steps of several  *)
(* processes interleave as the operating system allows.                    *)
(***************************************************************************)
NumProcs == 2
Procs == 1..NumProcs
NoFile == 0
GenerateDataset == "generate_dataset.py"
DatasetGeneration == "dataset_generation.py"
Scripts == {GenerateDataset, DatasetGeneration}
InRound == {"loop", "ch2", "ch3"}

LockInit ==
    /\ pc = [p \in Procs |-> "off"]
    /\ prog = [p \in Procs |-> ""]
    /\ restart = [p \in Procs |-> FALSE]
    /\ lock_file = [f \in Scripts |-> NoFile]
    /\ victim = [p \in Procs |-> NoFile]
    /\ workers = [p \in Procs |-> FALSE]
    /\ ended = [p \in Procs |-> ""]
    /\ acquired = [p \in Procs |-> FALSE]
    /\ blocked = [p \in Procs |-> FALSE]
    /\ ran_stage = [p \in Procs |-> FALSE]
    /\ lock_ops = [p \in Procs |-> FALSE]

\* os.path.exists(LOCK_FILE)
Exists(f) == lock_file[f] # NoFile

\* the process ends: by sys.exit, by an uncaught exception or by a signal
Dies(p, how) ==
    /\ pc' = [pc EXCEPT ![p] = "dead"]
    /\ ended' = [ended EXCEPT ![p] = how]
    /\ workers' = [workers EXCEPT ![p] = FALSE]

\* main of generate_dataset.py up to "if args.restart", or the __main__ block of
\* dataset_generation.py up to create_lock_file()
Start(p) ==
    /\ pc[p] = "off"
    /\ \E f \in Scripts, r \in BOOLEAN :
         /\ r => f = GenerateDataset
         /\ prog' = [prog EXCEPT ![p] = f]
         /\ restart' = [restart EXCEPT ![p] = r]
         /\ pc' = [pc EXCEPT ![p] = IF r THEN "kill_exists" ELSE "acq_exists"]
    /\ UNCHANGED <<lock_file, victim, workers, ended, acquired, blocked, ran_stage, lock_ops>>

\* kill_existing_process: if not os.path.exists(LOCK_FILE): return
KillExists(p) ==
    /\ pc[p] = "kill_exists"
    /\ pc' = [pc EXCEPT ![p] = IF Exists(prog[p]) THEN "kill_read" ELSE "acq_exists"]
    /\ UNCHANGED <<prog, restart, lock_file, victim, workers, ended, acquired, blocked,
                   ran_stage, lock_ops>>

\* kill_existing_process: open(LOCK_FILE, 'r'), pid = int(lines[0]); a file removed
\* since the check raises FileNotFoundError, which nothing catches
KillRead(p) ==
    /\ pc[p] = "kill_read"
    /\ IF Exists(prog[p])
       THEN /\ victim' = [victim EXCEPT ![p] = lock_file[prog[p]]]
            /\ pc' = [pc EXCEPT ![p] = "kill_signal"]
            /\ UNCHANGED <<ended, workers>>
       ELSE /\ Dies(p, "error")
            /\ UNCHANGED victim
    /\ UNCHANGED <<prog, restart, lock_file, acquired, blocked, ran_stage, lock_ops>>

\* kill_existing_process: os.kill(pid, signal.SIGTERM).  No script installs a
\* handler, so a live target ends at once, without running its finally block;
\* ProcessLookupError for a dead one is caught.
KillSignal(p) ==
    /\ pc[p] = "kill_signal"
    /\ LET v == victim[p]
       IN  IF pc[v] \notin {"off", "dead"}
           THEN /\ pc' = [pc EXCEPT ![p] = "kill_remove", ![v] = "dead"]
                /\ ended' = [ended EXCEPT ![v] = "sigterm"]
                /\ workers' = [workers EXCEPT ![v] = FALSE]
           ELSE /\ pc' = [pc EXCEPT ![p] = "kill_remove"]
                /\ UNCHANGED <<ended, workers>>
    /\ UNCHANGED <<prog, restart, lock_file, victim, acquired, blocked, ran_stage, lock_ops>>

\* kill_existing_process: os.remove(LOCK_FILE), whoever wrote it
KillRemove(p) ==
    /\ pc[p] = "kill_remove"
    /\ IF Exists(prog[p])
       THEN /\ lock_file' = [lock_file EXCEPT ![prog[p]] = NoFile]
            /\ lock_ops' = [lock_ops EXCEPT ![p] = TRUE]
            /\ pc' = [pc EXCEPT ![p] = "acq_exists"]
            /\ UNCHANGED <<ended, workers>>
       ELSE /\ Dies(p, "error")
            /\ UNCHANGED <<lock_file, lock_ops>>
    /\ UNCHANGED <<prog, restart, victim, acquired, blocked, ran_stage>>

\* an acquire that notes the lock file and goes on to write its own
AcquireIgnoresLock(p) ==
    /\ pc[p] = "acq_exists"
    /\ blocked' = [blocked EXCEPT ![p] = Exists(prog[p])]
    /\ pc' = [pc EXCEPT ![p] = "acq_write"]
    /\ UNCHANGED <<prog, restart, lock_file, victim, acquired, ran_stage, lock_ops,
                   ended, workers>>

\* acquire_lock / create_lock_file: if os.path.exists(LOCK_FILE)
\* (create_lock_file returns False and the __main__ block calls exit(1))
AcquireExists(p) ==
    /\ pc[p] = "acq_exists"
    /\ IF Exists(prog[p])
       THEN /\ blocked' = [blocked EXCEPT ![p] = TRUE]
            /\ IF prog[p] = GenerateDataset
               THEN /\ pc' = [pc EXCEPT ![p] = "acq_read"]
                    /\ UNCHANGED <<ended, workers>>
               ELSE Dies(p, "lock held")
       ELSE /\ pc' = [pc EXCEPT ![p] = "acq_write"]
            /\ UNCHANGED <<blocked, ended, workers>>
    /\ UNCHANGED <<prog, restart, lock_file, victim, acquired, ran_stage, lock_ops>>

\* acquire_lock: read the holder's pid for the message, then sys.exit(1); a file
\* removed since the check raises FileNotFoundError (exit status 1 as well)
AcquireRead(p) ==
    /\ pc[p] = "acq_read"
    /\ IF Exists(prog[p]) THEN Dies(p, "lock held") ELSE Dies(p, "error")
    /\ UNCHANGED <<prog, restart, lock_file, victim, acquired, blocked, ran_stage, lock_ops>>

\* acquire_lock / create_lock_file: open(LOCK_FILE, 'w') and write pid and time;
\* mode 'w' creates the file or truncates the one that is there
AcquireWrite(p) ==
    /\ pc[p] = "acq_write"
    /\ lock_file' = [lock_file EXCEPT ![prog[p]] = p]
    /\ lock_ops' = [lock_ops EXCEPT ![p] = TRUE]
    /\ acquired' = [acquired EXCEPT ![p] = TRUE]
    /\ pc' = [pc EXCEPT ![p] = "loop"]
    /\ UNCHANGED <<prog, restart, victim, workers, ended, blocked, ran_stage>>

\* main: "while True: run_all_chapters()": a round begins with Chapter 2, whose
\* MedicalCodingSystem.run_experiment starts one thread per enabled experiment
\* (dataset_generation.py runs its chapters as child processes and waits)
BeginRound(p) ==
    /\ pc[p] = "loop"
    /\ pc' = [pc EXCEPT ![p] = "ch2"]
    /\ ran_stage' = [ran_stage EXCEPT ![p] = TRUE]
    /\ workers' = [workers EXCEPT ![p] = (prog[p] = GenerateDataset)]
    /\ UNCHANGED <<prog, restart, lock_file, victim, ended, acquired, blocked, lock_ops>>

\* the experiment threads run to their end
WorkersDone(p) ==
    /\ workers[p]
    /\ workers' = [workers EXCEPT ![p] = FALSE]
    /\ UNCHANGED <<pc, prog, restart, lock_file, victim, ended, acquired, blocked,
                   ran_stage, lock_ops>>

\* Chapter 2 returns (thread.join() returned for every thread) or fails with an
\* Exception that run_all_chapters catches: Chapter 3 is next
Chapter2Done(p) ==
    /\ pc[p] = "ch2"
    /\ ~workers[p]
    /\ pc' = [pc EXCEPT ![p] = "ch3"]
    /\ UNCHANGED <<prog, restart, lock_file, victim, workers, ended, acquired, blocked,
                   ran_stage, lock_ops>>

\* Chapter 3 returns or fails: the round is complete
Chapter3Done(p) ==
    /\ pc[p] = "ch3"
    /\ pc' = [pc EXCEPT ![p] = "loop"]
    /\ UNCHANGED <<prog, restart, lock_file, victim, workers, ended, acquired, blocked,
                   ran_stage, lock_ops>>

\* Ctrl-C: KeyboardInterrupt in the main thread, wherever it is in the loop (in
\* thread.join() too); "except KeyboardInterrupt", then "finally: release_lock()".
\* The experiment threads are not daemons: they go on.
Interrupt(p) ==
    /\ pc[p] \in InRound
    /\ pc' = [pc EXCEPT ![p] = "rel_exists"]
    /\ ended' = [ended EXCEPT ![p] = "sigint"]
    /\ UNCHANGED <<prog, restart, lock_file, victim, workers, acquired, blocked,
                   ran_stage, lock_ops>>

\* sys.exit(1) inside a chapter (MedicalCodingSystem._ensure_data_loaded, before
\* the threads start): SystemExit is no Exception, so it passes run_all_chapters
\* and reaches "finally: release_lock()"
SystemExit(p) ==
    /\ pc[p] = "loop"
    /\ prog[p] = GenerateDataset
    /\ pc' = [pc EXCEPT ![p] = "rel_exists"]
    /\ ended' = [ended EXCEPT ![p] = "exit"]
    /\ ran_stage' = [ran_stage EXCEPT ![p] = TRUE]
    /\ UNCHANGED <<prog, restart, lock_file, victim, workers, acquired, blocked, lock_ops>>

\* a termination signal (kill <pid>, system shutdown): the default action of
\* SIGTERM ends the process at once
Terminate(p) ==
    /\ pc[p] \notin {"off", "dead"}
    /\ Dies(p, "sigterm")
    /\ UNCHANGED <<prog, restart, lock_file, victim, acquired, blocked, ran_stage, lock_ops>>

\* release_lock / remove_lock_file: if os.path.exists(LOCK_FILE)
ReleaseExists(p) ==
    /\ pc[p] = "rel_exists"
    /\ pc' = [pc EXCEPT ![p] = IF Exists(prog[p]) THEN "rel_remove" ELSE "exiting"]
    /\ UNCHANGED <<prog, restart, lock_file, victim, workers, ended, acquired, blocked,
                   ran_stage, lock_ops>>

\* release_lock / remove_lock_file: os.remove(LOCK_FILE), whoever wrote it; a
\* file removed since the check raises FileNotFoundError
ReleaseRemove(p) ==
    /\ pc[p] = "rel_remove"
    /\ IF Exists(prog[p])
       THEN /\ lock_file' = [lock_file EXCEPT ![prog[p]] = NoFile]
            /\ lock_ops' = [lock_ops EXCEPT ![p] = TRUE]
       ELSE UNCHANGED <<lock_file, lock_ops>>
    /\ pc' = [pc EXCEPT ![p] = "exiting"]
    /\ UNCHANGED <<prog, restart, victim, workers, ended, acquired, blocked, ran_stage>>

\* main has returned; the interpreter ends once the experiment threads have
ProcessExits(p) ==
    /\ pc[p] = "exiting"
    /\ ~workers[p]
    /\ pc' = [pc EXCEPT ![p] = "dead"]
    /\ UNCHANGED <<prog, restart, lock_file, victim, workers, ended, acquired, blocked,
                   ran_stage, lock_ops>>

LockNext ==
    /\ UNCHANGED <<ctlVars, predVars, ragVars, revVars, batchVars, roundVars, gwVars, findVars, cacheVars, variantVars, denseVars>>
    /\ \E p \in Procs :
        \/ Start(p)
        \/ KillExists(p)
        \/ KillRead(p)
        \/ KillSignal(p)
        \/ KillRemove(p)
        \/ AcquireExists(p)
        \/ AcquireRead(p)
        \/ AcquireWrite(p)
        \/ BeginRound(p)
        \/ WorkersDone(p)
        \/ Chapter2Done(p)
        \/ Chapter3Done(p)
        \/ Interrupt(p)
        \/ SystemExit(p)
        \/ Terminate(p)
        \/ ReleaseExists(p)
        \/ ReleaseRemove(p)
        \/ ProcessExits(p)

\* a Scheduler instance is active from its successful acquire until its stage
\* work, the experiment threads included, has ended
Active(p) == acquired[p] /\ (pc[p] \in InRound \/ workers[p])

\* C5: at most one instance of generate_dataset.py at a time is between a
\* successful acquire_lock and the end of its stage work, worker threads included
C5_MutualExclusion ==
    \A p, q \in Procs :
        (p # q /\ prog[p] = GenerateDataset /\ prog[q] = GenerateDataset)
            => ~(Active(p) /\ Active(q))

\* the ways a process ends with a non-zero status: sys.exit(1) / exit(1) on a held
\* lock, an uncaught exception, a termination signal
FailureEndings == {"lock held", "error", "sigterm"}

\* C6: a start without --restart that finds the lock file present ends with a
\* failure status, having acquired nothing, run no stage, accessed no store and
\* neither written nor removed the lock file
C6_LockHeldIsFatal ==
    \A p \in Procs :
        (blocked[p] /\ ~restart[p]) =>
            /\ pc[p] \in {"acq_read", "dead"}
            /\ pc[p] = "dead" => ended[p] \in FailureEndings
            /\ ~acquired[p]
            /\ ~ran_stage[p]
            /\ ~lock_ops[p]

\* a start was refused while the holder goes on running with its lock file in place
C6_Witness ==
    \E p, q \in Procs :
        /\ blocked[p] /\ ~restart[p] /\ pc[p] = "dead" /\ ended[p] = "lock held"
        /\ q # p /\ prog[q] = prog[p] /\ lock_file[prog[p]] = q /\ pc[q] \in InRound

\* C7: a run that acquired the lock and ended by a clean exit, by Ctrl-C or by a
\* termination signal has not left its lock file behind
C7_LockReleasedAtEnd ==
    \A p \in Procs :
        (acquired[p] /\ pc[p] = "dead" /\ ended[p] \in {"exit", "sigint", "sigterm"})
            => lock_file[prog[p]] # p

\* C26: the release_lock of an instance removes the lock file only when the
\* file records that instance: the shutdown of one instance never removes the
\* lock file written by another.
C26_ReleaseOnlyOwnLock ==
    [][\A p \in Procs :
          (pc[p] = "rel_remove" /\ pc'[p] = "exiting" /\ Exists(prog[p]))
              => lock_file[prog[p]] = p]_vars

(***************************************************************************)
(* The prediction experiment (chapter_2.run_experiment) and the table      *)
(* model_predictions.  A run of the Scheduler has one worker thread per    *)
(* enabled experiment, each with its own connection; `chapter_2.py run`    *)
(* (lock file chapter_2.lock) can run the same experiments next to it.     *)
(* Two workers run at a time: the two experiments of one run, or the same  *)
(* experiment in two processes.  Every statement that reads or writes the  *)
(* store is one step.                                                      *)
(***************************************************************************)
NumCodes == 2
Codes == 1..NumCodes                 \* icd10_codes.id, in the order of the table scan
ClaudeConstrained == "claude_constrained"
CodexConstrained == "codex_constrained"
Experiments == {ClaudeConstrained, CodexConstrained}
ExpWorkers == {"thread 1", "thread 2"}
CliDefaultMaxItems == 1000
SchedulerMaxItems == 1
\* initial_batch_size and max_items as chapter_2.generate_dataset passes them, and
\* as `chapter_2.py run -b 1` does
ExpCallers == {<<SchedulerInitialBatchSize, SchedulerMaxItems>>, <<1, CliDefaultMaxItems>>}

\* the columns of a row that the experiment decides (confidence is 1.0 or 0.0)
PredictionRows == [code_id : Codes, model_name : Experiments, confidence : {0, 1}]
NoSave == [row |-> <<>>, replaced |-> FALSE]

\* the rows that collide with row on UNIQUE(code_id, model_name)
SameKey(r, row) == r.code_id = row.code_id /\ r.model_name = row.model_name

\* number of rows the table holds for the key of row
RowsOfKey(table, row) ==
    LET n0 == table[[row EXCEPT !.confidence = 0]]
        n1 == table[[row EXCEPT !.confidence = 1]]
    IN  n0 + n1

\* a plain INSERT, as on a table without the UNIQUE constraint
InsertPrediction(table, row) == [table EXCEPT ![row] = @ + 1]

\* INSERT OR REPLACE INTO model_predictions: the rows that collide on the UNIQUE
\* key are deleted, the new row is inserted
SavePredictionWithTokens(table, row) ==
    [r \in PredictionRows |-> IF r = row THEN 1 ELSE IF SameKey(r, row) THEN 0 ELSE table[r]]

\* SELECT COUNT(DISTINCT code_id) FROM model_predictions WHERE model_name = ?
CountProcessed(table, experiment_name) ==
    Cardinality({c \in Codes :
        \E r \in PredictionRows :
            r.code_id = c /\ r.model_name = experiment_name /\ table[r] > 0})

\* SELECT id, ... FROM icd10_codes LIMIT ? OFFSET ?
SelectBatch(limit, offset) ==
    [i \in 1..Min(limit, Max(0, NumCodes - offset)) |-> offset + i]

IdleExperiment ==
    [pc |-> "idle", experiment_name |-> "", batch_manager |-> NoManager, max_items |-> 0, items_processed |-> 0,
     current_offset |-> 0, batch |-> <<>>, next |-> 0, batch_succeeded |-> 0,
     success |-> FALSE]

PredInit ==
    /\ model_predictions = [r \in PredictionRows |-> 0]
    /\ exp = [w \in ExpWorkers |-> IdleExperiment]
    /\ last_save = NoSave

\* "while items_processed < max_items and current_offset < total_items"
LoopCondition(e) == e.items_processed < e.max_items /\ e.current_offset < NumCodes

\* the head of the loop on the locals e: the next batch is selected ("if not
\* batch: break"), or run_experiment returns
NextIteration(e) ==
    LET batch == SelectBatch(GetSize(e.batch_manager), e.current_offset)
    IN  IF LoopCondition(e) /\ batch # <<>>
        THEN [e EXCEPT !.pc = "call", !.batch = batch, !.next = 1, !.batch_succeeded = 0]
        ELSE IdleExperiment

\* the end of a batch on the locals e: counters, offset, the controller's adjustment
AfterBatch(e) ==
    [e EXCEPT !.items_processed = @ + Len(e.batch),
              !.current_offset = @ + Len(e.batch),
              !.batch_manager = Adjust(@, <<e.batch_succeeded, Len(e.batch)>>)]

\* run_experiment up to its first batch: the controller is built, the offset is
\* the number of codes that have a row for this experiment
RunExperiment(w) ==
    /\ exp[w].pc = "idle"
    /\ \E x \in Experiments, caller \in ExpCallers :
         exp' = [exp EXCEPT ![w] =
                      NextIteration(
                        [IdleExperiment EXCEPT
                           !.experiment_name = x,
                           !.batch_manager =
                               NewBatchManager(caller[1], DefaultMaxBatchSize),
                           !.max_items = caller[2],
                           !.current_offset = CountProcessed(model_predictions, x)])]
    /\ UNCHANGED <<model_predictions, last_save>>

\* model_caller(prompt) for the next code of the batch; success = code in predicted_codes
CallModel(w) ==
    /\ exp[w].pc = "call"
    /\ \E success \in BOOLEAN :
         exp' = [exp EXCEPT ![w] =
                   [@ EXCEPT !.pc = "save", !.success = success,
                             !.batch_succeeded = @ + (IF success THEN 1 ELSE 0)]]
    /\ UNCHANGED <<model_predictions, last_save>>

\* the row the worker is about to save
RowToSave(w) ==
    [code_id |-> exp[w].batch[exp[w].next], model_name |-> exp[w].experiment_name,
     confidence |-> IF exp[w].success THEN 1 ELSE 0]

\* db.save_prediction_with_tokens(code_id, experiment_name, ...) and its commit,
\* then the next code of the batch or, after the last one, the end of the batch
\* and the head of the loop
SavePrediction(w) ==
    /\ exp[w].pc = "save"
    /\ model_predictions' = SavePredictionWithTokens(model_predictions, RowToSave(w))
    /\ last_save' = [row |-> RowToSave(w),
                     replaced |-> RowsOfKey(model_predictions, RowToSave(w)) > 0]
    /\ exp' = [exp EXCEPT ![w] =
                 IF @.next = Len(@.batch)
                 THEN NextIteration(AfterBatch([@ EXCEPT !.success = FALSE]))
                 ELSE [@ EXCEPT !.pc = "call", !.next = @ + 1, !.success = FALSE]]

\* the process of the worker is killed or crashes, anywhere in the call: only
\* what was committed remains
ExperimentCrashes(w) ==
    /\ exp[w].pc # "idle"
    /\ exp' = [exp EXCEPT ![w] = IdleExperiment]
    /\ UNCHANGED <<model_predictions, last_save>>

PredNext ==
    /\ UNCHANGED <<ctlVars, lockVars, ragVars, revVars, batchVars, roundVars, gwVars, findVars, cacheVars, variantVars, denseVars>>
    /\ \E w \in ExpWorkers :
        \/ RunExperiment(w)
        \/ CallModel(w)
        \/ SavePrediction(w)
        \/ ExperimentCrashes(w)


\* C1: model_predictions holds at most one row per (code_id, model_name), and
\* the row of the latest save is the one row of its key (a save onto an existing
\* key replaces the row)
C1_OneRowPerCodeAndModel ==
    /\ \A row \in PredictionRows : RowsOfKey(model_predictions, row) <= 1
    /\ last_save # NoSave =>
         /\ model_predictions[last_save.row] = 1
         /\ RowsOfKey(model_predictions, last_save.row) = 1

\* an already processed code has just been processed again, with the other
\* outcome, while the other worker is between a predictor call and its persist
C1_Witness ==
    /\ last_save.replaced
    /\ last_save.row.confidence = 0
    /\ \E w \in ExpWorkers : exp[w].pc = "save"

\* C24: one invocation of run_experiment(max_items = m) processes at most m
\* catalog items: the item a worker is calling the model for, or saving, is
\* among the first m of its invocation.
C24_BoundedWorkPerRun ==
    \A w \in ExpWorkers :
        exp[w].pc \in {"call", "save"} =>
            exp[w].items_processed + exp[w].next <= exp[w].max_items

(***************************************************************************)
(* The retrieval-augmented experiment (chapter_3.run_rag_experiment): one  *)
(* call per corpus mode and round, from chapter_3.generate_dataset and     *)
(* from the command line.  The descriptions of generated_descriptions are  *)
(* the units of work.                                                      *)
(***************************************************************************)
NumDescriptions == 3
Descriptions == 1..NumDescriptions          \* generated_descriptions.id
CorpusModes == {"real_only", "synthetic_only", "both"}
PredictorModels == {"claude", "codex"}
SchedulerRagMaxItems == 11
MaxRagRows == 4                             \* result rows in the checked behaviours
RagMaxItems == {1, SchedulerRagMaxItems}
RagKeys == Descriptions \X PredictorModels

IdleRag == [pc |-> "idle", corpus_mode |-> "", model_name |-> "", test_cases |-> {},
            results |-> {}]

RagInit ==
    /\ rag_predictions = [mode \in CorpusModes |-> [k \in RagKeys |-> 0]]
    /\ rag = IdleRag

RECURSIVE SumOver(_, _)
\* the sum of f over the set S
SumOver(f, S) ==
    IF S = {} THEN 0
    ELSE LET x == CHOOSE y \in S : TRUE IN f[x] + SumOver(f, S \ {x})

\* the number of rows of a result table
RowCount(table) == SumOver(table, RagKeys)

\* the number of rows of the three result tables
TotalRagRows == SumOver([mode \in CorpusModes |-> RowCount(rag_predictions[mode])],
                        CorpusModes)

\* "FROM generated_descriptions gd JOIN icd10_codes ... ORDER BY RANDOM() LIMIT ?":
\* the possible results, as sets (the order of the rows does not reach the table)
SelectTestCases(max_items) ==
    {S \in SUBSET Descriptions :
        Cardinality(S) = Min(max_items, NumDescriptions)}

\* "INSERT INTO rag_<mode>_predictions (...) VALUES (...)" for every result
InsertResults(table, results, model_name) ==
    [k \in RagKeys |-> IF k[1] \in results /\ k[2] = model_name THEN table[k] + 1
                       ELSE table[k]]

\* run_rag_experiment up to the loop: the engine is loaded, the test cases are drawn
RunRagExperiment ==
    /\ rag.pc = "idle"
    /\ \E mode \in CorpusModes, model \in PredictorModels, max_items \in RagMaxItems :
         \E cases \in SelectTestCases(max_items) :
            /\ TotalRagRows + Cardinality(cases) <= MaxRagRows
            /\ rag' = [pc |-> "predict", corpus_mode |-> mode, model_name |-> model,
                       test_cases |-> cases, results |-> {}]
    /\ UNCHANGED rag_predictions

\* one turn of the loop: retrieval, prediction, results.append(...)
PredictWithRag ==
    /\ rag.pc = "predict"
    /\ \E d \in rag.test_cases \ rag.results :
         rag' = [rag EXCEPT !.results = @ \cup {d}]
    /\ UNCHANGED rag_predictions

\* after the loop: every result is inserted and the transaction is committed
StoreRagResults ==
    /\ rag.pc = "predict"
    /\ rag.results = rag.test_cases
    /\ rag_predictions' =
         [rag_predictions EXCEPT ![rag.corpus_mode] =
             InsertResults(@, rag.results, rag.model_name)]
    /\ rag' = IdleRag

\* the process ends before the commit: nothing of the call is stored
RagInterrupted ==
    /\ rag.pc = "predict"
    /\ rag' = IdleRag
    /\ UNCHANGED rag_predictions

RagNext ==
    /\ UNCHANGED <<ctlVars, lockVars, predVars, revVars, batchVars, roundVars, gwVars, findVars, cacheVars, variantVars, denseVars>>
    /\ \/ RunRagExperiment
       \/ PredictWithRag
       \/ StoreRagResults
       \/ RagInterrupted

\* C2: every table rag_<mode>_predictions holds at most one row per
\* (generated_desc_id, model_name)
C2_OneRowPerDescription ==
    \A mode \in CorpusModes : \A k \in RagKeys : rag_predictions[mode][k] <= 1

(***************************************************************************)
(* The reverse-prediction stage (chapter_3.run_reverse_predictions), called *)
(* with model "claude" and max_predictions=11 by generate_dataset and with  *)
(* --model and --max-items by the command line.                             *)
(***************************************************************************)
SchedulerMaxPredictions == 11
RevLimits == {2, SchedulerMaxPredictions}
NoCall == [max_predictions |-> 0, selected |-> {}, persisted |-> {}, interrupted |-> FALSE]
IdleRev == [pc |-> "idle", model |-> "", max_predictions |-> 0, descriptions |-> <<>>,
            next |-> 0]

RevInit ==
    /\ reverse_predictions = {}
    /\ rev = IdleRev
    /\ prev_call = [m \in PredictorModels |-> NoCall]

\* the descriptions with a reverse_predictions row of any predictor model left out
PendingForAnyModel(table, model) ==
    {d \in Descriptions : \A m \in PredictorModels : <<d, m>> \notin table}

\* "FROM generated_descriptions gd ... WHERE NOT EXISTS (SELECT 1 FROM
\* reverse_predictions rp WHERE rp.generated_desc_id = gd.id AND rp.predictor_model = ?)"
PendingFor(table, model) ==
    {d \in Descriptions : <<d, model>> \notin table}

\* the elements of the sequence q
Range(q) == {q[i] : i \in 1..Len(q)}

\* "... LIMIT ?": without ORDER BY the rows come in an order of the engine's
\* choosing, each row of the join once
SelectDescriptions(table, model, limit) ==
    LET pending == PendingFor(table, model)
        n == Min(limit, Cardinality(pending))
    IN  {q \in [1..n -> pending] : \A i, j \in 1..n : i # j => q[i] # q[j]}

\* the ended call, as the next one of the same model will find it
EndedCall(r, interrupted) ==
    [max_predictions |-> r.max_predictions, selected |-> Range(r.descriptions),
     persisted |-> {r.descriptions[i] : i \in 1..(r.next - 1)},
     interrupted |-> interrupted]

\* run_reverse_predictions up to the loop: the pending descriptions are selected
\* ("if not descriptions: return")
RunReversePredictions ==
    /\ rev.pc = "idle"
    /\ \E model \in PredictorModels, limit \in RevLimits :
         \E q \in SelectDescriptions(reverse_predictions, model, limit) :
            rev' = IF q = <<>> THEN IdleRev
                   ELSE [pc |-> "call", model |-> model, max_predictions |-> limit,
                         descriptions |-> q, next |-> 1]
    /\ UNCHANGED <<reverse_predictions, prev_call>>

\* model_caller(prompt) for the next description
CallPredictor ==
    /\ rev.pc = "call"
    /\ rev' = [rev EXCEPT !.pc = "save"]
    /\ UNCHANGED <<reverse_predictions, prev_call>>

\* "INSERT OR REPLACE INTO reverse_predictions" and conn.commit(); after the last
\* description the call returns
SaveReversePrediction ==
    /\ rev.pc = "save"
    /\ reverse_predictions' =
         reverse_predictions \cup {<<rev.descriptions[rev.next], rev.model>>}
    /\ IF rev.next = Len(rev.descriptions)
       THEN /\ rev' = IdleRev
            /\ prev_call' = [prev_call EXCEPT ![rev.model] =
                               EndedCall([rev EXCEPT !.next = @ + 1], FALSE)]
       ELSE /\ rev' = [rev EXCEPT !.pc = "call", !.next = @ + 1]
            /\ UNCHANGED prev_call

\* the call is interrupted (Ctrl-C, kill, crash) between two statements: the
\* committed rows stay
RevInterrupted ==
    /\ rev.pc \in {"call", "save"}
    /\ prev_call' = [prev_call EXCEPT ![rev.model] = EndedCall(rev, TRUE)]
    /\ rev' = IdleRev
    /\ UNCHANGED reverse_predictions

RevNext ==
    /\ UNCHANGED <<ctlVars, lockVars, predVars, ragVars, batchVars, roundVars, gwVars, findVars, cacheVars, variantVars, denseVars>>
    /\ \/ RunReversePredictions
       \/ CallPredictor
       \/ SaveReversePrediction
       \/ RevInterrupted

\* the call in progress has just made its selection
JustSelected == rev.pc = "call" /\ rev.next = 1

\* the latest call of the same model selected N descriptions and was interrupted
\* with floor(N/2) of them persisted; the call in progress has the same limit and
\* nothing else is pending for the model
ResumesHalfDone ==
    LET p == prev_call[rev.model]
    IN  /\ JustSelected
        /\ p.interrupted
        /\ Cardinality(p.persisted) = Cardinality(p.selected) \div 2
        /\ p.max_predictions = rev.max_predictions
        /\ PendingFor(reverse_predictions, rev.model) \subseteq p.selected

\* C3: a call that resumes a half-done one returns exactly the remaining
\* ceil(N/2) descriptions; no call returns a description that has a row for its
\* predictor model, or a description twice
C3_Resumable ==
    /\ ResumesHalfDone =>
         LET p == prev_call[rev.model]
             N == Cardinality(p.selected)
         IN  /\ Range(rev.descriptions) = p.selected \ p.persisted
             /\ Len(rev.descriptions) = N - (N \div 2)
    /\ rev.pc # "idle" =>
         /\ \A i, j \in 1..Len(rev.descriptions) :
               i # j => rev.descriptions[i] # rev.descriptions[j]
         /\ \A i \in rev.next..Len(rev.descriptions) :
               <<rev.descriptions[i], rev.model>> \notin reverse_predictions

\* a call resumes one that had selected three descriptions and persisted one,
\* while the other predictor model has rows of its own
C3_Witness ==
    /\ ResumesHalfDone
    /\ Cardinality(prev_call[rev.model].selected) = 3
    /\ Len(rev.descriptions) = 2
    /\ \E k \in reverse_predictions : k[2] # rev.model

(***************************************************************************)
(* One batch of a stage, unit by unit: the loops of run_experiment         *)
(* (chapter_2.py) and of run_reverse_predictions (chapter_3.py), with the  *)
(* outcomes a predictor call and a store write can have.                   *)
(***************************************************************************)
MaxBatchLen == 3
Units == 1..MaxBatchLen
NoRow == 2                              \* unit_rows: the unit has no result row
RunExperimentStage == "run_experiment"
ReversePredictionsStage == "run_reverse_predictions"
UnitStages == {RunExperimentStage, ReversePredictionsStage}

\* what call_claude / call_codex can return, as far as the loops look at it:
\* the success flag and the codes that extract_icd10_codes finds in stdout
\* ("expected": the unit's own code, "other": codes without it, "none": nothing
\* that parses as a code)
GatewayResults == [success : BOOLEAN, stdout : {"expected", "other", "none"}]

\* "predicted_codes = extract_icd10_codes(result['stdout']) if result['success']
\* else []", then "success = code in predicted_codes"
UnitSucceeds(result) == result.success /\ result.stdout = "expected"

\* the call failed (timeout, non-zero exit) or its output holds no code
UnitFails(result) == ~result.success \/ result.stdout = "none"

IdleLoop == [pc |-> "idle", stage |-> "", len |-> 0, next |-> 0, success |-> FALSE,
             batch_succeeded |-> 0, errors |-> 0, outcome |-> ""]

BatchInit ==
    /\ unit_loop = IdleLoop
    /\ unit_calls = [u \in Units |-> 0]
    /\ unit_rows = [u \in Units |-> NoRow]
    /\ unit_failed = [u \in Units |-> FALSE]
    /\ persist_failed = [u \in Units |-> FALSE]
    /\ adjust_fed = NoRate
    /\ batch_metrics = [state |-> "none", success_count |-> 0, failure_count |-> 0,
                        updates |-> 0]

\* the batch (run_experiment) or the selection (run_reverse_predictions) has been
\* fetched: len units, none with a row yet
BeginUnits ==
    /\ unit_loop.pc = "idle"
    /\ \E stage \in UnitStages, len \in 1..MaxBatchLen :
         /\ unit_loop' = [IdleLoop EXCEPT !.pc = "call", !.stage = stage, !.len = len,
                                          !.next = 1]
         \* db.start_batch(experiment_name, batch_size), in run_experiment only
         /\ batch_metrics' = [state |-> IF stage = RunExperimentStage THEN "open" ELSE "none",
                              success_count |-> 0, failure_count |-> 0, updates |-> 0]
    /\ unit_calls' = [u \in Units |-> 0]
    /\ unit_rows' = [u \in Units |-> NoRow]
    /\ unit_failed' = [u \in Units |-> FALSE]
    /\ persist_failed' = [u \in Units |-> FALSE]
    /\ adjust_fed' = NoRate

\* model_caller(prompt) for the next unit, and the tallies: batch_succeeded in
\* run_experiment, stats["success"] / stats["error"] in run_reverse_predictions
CallUnit ==
    /\ unit_loop.pc = "call"
    /\ \E result \in GatewayResults :
         /\ unit_loop' = [unit_loop EXCEPT
               !.pc = "save",
               !.success = UnitSucceeds(result),
               !.batch_succeeded = @ + (IF UnitSucceeds(result) THEN 1 ELSE 0),
               !.errors = @ + (IF UnitSucceeds(result) THEN 0 ELSE 1)]
         /\ unit_failed' = [unit_failed EXCEPT ![unit_loop.next] = UnitFails(result)]
    /\ unit_calls' = [unit_calls EXCEPT ![unit_loop.next] = @ + 1]
    /\ UNCHANGED <<unit_rows, persist_failed, adjust_fed, batch_metrics>>

\* the loop after the store write of a unit: the next unit, or the end of the
\* batch: batch_manager.adjust(batch_succeeded / len(batch)) in run_experiment,
\* "return stats" in run_reverse_predictions, which has no controller
AfterUnit(l) ==
    IF l.next < l.len THEN [l EXCEPT !.pc = "call", !.next = @ + 1, !.success = FALSE]
    ELSE [l EXCEPT !.pc = "done", !.outcome = "returned", !.success = FALSE]

\* the store write of the unit's result commits: save_prediction_with_tokens in
\* run_experiment, INSERT OR REPLACE and conn.commit() in run_reverse_predictions;
\* confidence is 1.0 if success else 0.0
SaveUnit ==
    /\ unit_loop.pc = "save"
    /\ unit_rows' = [unit_rows EXCEPT ![unit_loop.next] =
                        IF unit_loop.success THEN 1 ELSE 0]
    /\ unit_loop' = AfterUnit(unit_loop)
    /\ adjust_fed' = IF unit_loop.next = unit_loop.len
                        /\ unit_loop.stage = RunExperimentStage
                     THEN <<unit_loop.batch_succeeded, unit_loop.len>>
                     ELSE adjust_fed
    \* db.update_batch_metrics(batch_id, batch_succeeded, len(batch) - batch_succeeded, ...)
    /\ batch_metrics' = IF unit_loop.next = unit_loop.len
                           /\ unit_loop.stage = RunExperimentStage
                        THEN [state |-> "closed",
                              success_count |-> unit_loop.batch_succeeded,
                              failure_count |-> unit_loop.len - unit_loop.batch_succeeded,
                              updates |-> batch_metrics.updates + 1]
                        ELSE batch_metrics
    /\ UNCHANGED <<unit_calls, unit_failed, persist_failed>>

\* the store write fails: the database stays locked beyond the timeout and
\* sqlite3 raises OperationalError; neither loop has a try around the write, so
\* the exception leaves the loop and the function
SaveUnitFails ==
    /\ unit_loop.pc = "save"
    /\ persist_failed' = [persist_failed EXCEPT ![unit_loop.next] = TRUE]
    /\ unit_loop' = [unit_loop EXCEPT !.pc = "done", !.outcome = "raised"]
    /\ UNCHANGED <<unit_calls, unit_rows, unit_failed, adjust_fed, batch_metrics>>

BatchNext ==
    /\ UNCHANGED <<ctlVars, lockVars, predVars, ragVars, revVars, roundVars, gwVars, findVars, cacheVars, variantVars, denseVars>>
    /\ \/ BeginUnits
       \/ CallUnit
       \/ SaveUnit
       \/ SaveUnitFails

\* the units of the batch in progress
BatchUnits == 1..unit_loop.len

\* C13: in a batch of either stage that ran to its end, every unit whose
\* predictor call failed or whose output could not be parsed has a result row
\* with confidence 0.0, was called once, is counted in the failure tally, and
\* that tally was passed to adjust as the batch's success rate; every unit of
\* the batch was processed.
C13_UnitFailure ==
    unit_loop.outcome = "returned" =>
        /\ \A u \in BatchUnits : unit_calls[u] = 1 /\ unit_rows[u] # NoRow
        /\ \A u \in BatchUnits : unit_failed[u] => unit_rows[u] = 0
        /\ unit_loop.errors >= Cardinality({u \in BatchUnits : unit_failed[u]})
        /\ unit_loop.batch_succeeded + unit_loop.errors = unit_loop.len
        /\ adjust_fed = <<unit_loop.len - unit_loop.errors, unit_loop.len>>

\* C14: a failed store write of one unit does not end the loop: the loop is not
\* left by the exception, and when the batch is over every unit was processed
\* and the unit is counted as failed.
C14_PersistFailure ==
    \A u \in BatchUnits :
        persist_failed[u] =>
            /\ unit_loop.outcome # "raised"
            /\ unit_loop.pc = "done" =>
                  /\ \A v \in BatchUnits : unit_calls[v] = 1
                  /\ unit_loop.errors >= 1

\* C25: a batch of run_experiment has one batch_metrics row, opened at its start
\* and closed once at its end with success_count + failure_count equal to the
\* number of its units; no row stays open once the invocation has ended.
C25_BatchRecordLifecycle ==
    unit_loop.stage = RunExperimentStage =>
        /\ batch_metrics.state # "none"
        /\ batch_metrics.updates <= 1
        /\ batch_metrics.state = "closed" =>
              batch_metrics.success_count + batch_metrics.failure_count = unit_loop.len
        /\ unit_loop.pc = "done" => batch_metrics.state = "closed"

(***************************************************************************)
(* The rounds of one Scheduler (generate_dataset.py) that has acquired the *)
(* lock: main's "while True: run_all_chapters()", Chapter 2 with its       *)
(* experiment threads, Chapter 3 with its sub-stages, and Ctrl-C.          *)
(***************************************************************************)
RoundBatchLen == 2                      \* units of a batch in the checked behaviours
Chapter3SubStages ==
    <<"3.0", "3.1 real_only", "3.1 synthetic_only", "3.1 both", "3.2", "3.3", "3.4">>
SubStageIndexes == 1..Len(Chapter3SubStages)
NotCancelled == [at |-> "", sub_stage |-> 0, main_progress |-> 0]

RoundInit ==
    /\ rd_pc = "loop"
    /\ sub_stage = 0
    /\ main_progress = 0
    /\ thread_running = [t \in Experiments |-> FALSE]
    /\ thread_progress = [t \in Experiments |-> 0]
    /\ lock_held = TRUE
    /\ sub_stages_run = {}
    /\ sub_stages_failed = {}
    /\ after_ch2_failure = "none"
    /\ cancelled = NotCancelled
    /\ batches_after_cancel = [t \in Experiments |-> 0]

\* a new round: run_all_chapters calls chapter_2.generate_dataset, whose
\* MedicalCodingSystem.run_experiment starts one thread per enabled experiment
\* and joins them
RoundBegins ==
    /\ rd_pc = "loop"
    /\ \A t \in Experiments : ~thread_running[t]
    /\ rd_pc' = "ch2"
    /\ thread_running' = [t \in Experiments |-> TRUE]
    /\ thread_progress' = [t \in Experiments |-> 0]
    /\ sub_stages_run' = {}
    /\ sub_stages_failed' = {}
    /\ after_ch2_failure' = IF after_ch2_failure = "ch3 ran" THEN "next round"
                            ELSE after_ch2_failure
    /\ UNCHANGED <<sub_stage, main_progress, lock_held, cancelled, batches_after_cancel>>

\* an experiment thread persists the next unit of its batch; the thread is not
\* a daemon and goes on after main has stopped
ThreadPersists(t) ==
    /\ thread_running[t]
    /\ thread_progress[t] < RoundBatchLen
    /\ thread_progress' = [thread_progress EXCEPT ![t] = @ + 1]
    /\ UNCHANGED <<rd_pc, sub_stage, main_progress, thread_running, lock_held,
                   sub_stages_run, sub_stages_failed, after_ch2_failure, cancelled,
                   batches_after_cancel>>

\* the thread's batch is complete: with max_items=1 run_experiment returns
ThreadEnds(t) ==
    /\ thread_running[t]
    /\ thread_progress[t] = RoundBatchLen
    /\ thread_running' = [thread_running EXCEPT ![t] = FALSE]
    /\ batches_after_cancel' =
         [batches_after_cancel EXCEPT ![t] = IF cancelled = NotCancelled THEN @ ELSE @ + 1]
    /\ UNCHANGED <<rd_pc, sub_stage, main_progress, thread_progress, lock_held,
                   sub_stages_run, sub_stages_failed, after_ch2_failure, cancelled>>

\* chapter_2.generate_dataset returns (threads joined, variants generated):
\* run_all_chapters goes on to Chapter 3, whose first sub-stage begins
Chapter2Returns ==
    /\ rd_pc = "ch2"
    /\ \A t \in Experiments : ~thread_running[t]
    /\ rd_pc' = "ch3"
    /\ sub_stage' = 1
    /\ main_progress' = 0
    /\ after_ch2_failure' = "none"
    /\ UNCHANGED <<thread_running, thread_progress, lock_held, sub_stages_run,
                   sub_stages_failed, cancelled, batches_after_cancel>>

\* a run_all_chapters without the try: the exception of Chapter 2 reaches main,
\* whose finally releases the lock
Chapter2FailureEndsMain ==
    /\ rd_pc = "ch2"
    /\ \A t \in Experiments : ~thread_running[t]
    /\ rd_pc' = "stopped"
    /\ lock_held' = FALSE
    /\ after_ch2_failure' = "ch2 failed"
    /\ UNCHANGED <<sub_stage, main_progress, thread_running, thread_progress,
                   sub_stages_run, sub_stages_failed, cancelled, batches_after_cancel>>

\* chapter_2.generate_dataset raises an Exception (after the join: in the variant
\* generation): "except Exception" prints it and the for loop goes on to Chapter 3
Chapter2Fails ==
    /\ rd_pc = "ch2"
    /\ \A t \in Experiments : ~thread_running[t]
    /\ rd_pc' = "ch3"
    /\ sub_stage' = 1
    /\ main_progress' = 0
    /\ after_ch2_failure' = "ch2 failed"
    /\ UNCHANGED <<thread_running, thread_progress, lock_held, sub_stages_run,
                   sub_stages_failed, cancelled, batches_after_cancel>>

\* the sub-stage being run persists the next unit of its batch
SubStagePersists ==
    /\ rd_pc = "ch3"
    /\ main_progress < RoundBatchLen
    /\ main_progress' = main_progress + 1
    /\ UNCHANGED <<rd_pc, sub_stage, thread_running, thread_progress, lock_held,
                   sub_stages_run, sub_stages_failed, after_ch2_failure, cancelled,
                   batches_after_cancel>>

\* the end of chapter_3.generate_dataset, by return or by exception: back in
\* main's loop
Chapter3Ends == IF after_ch2_failure = "ch2 failed" THEN "ch3 ran" ELSE after_ch2_failure

\* the sub-stage returns (its batch done, or nothing pending): the next call of
\* chapter_3.generate_dataset, or its return after the last one
SubStageReturns ==
    /\ rd_pc = "ch3"
    /\ main_progress \in {0, RoundBatchLen}
    /\ sub_stages_run' = sub_stages_run \cup {sub_stage}
    /\ main_progress' = 0
    /\ IF sub_stage < Len(Chapter3SubStages)
       THEN /\ sub_stage' = sub_stage + 1
            /\ UNCHANGED <<rd_pc, after_ch2_failure>>
       ELSE /\ sub_stage' = 0
            /\ rd_pc' = "loop"
            /\ after_ch2_failure' = Chapter3Ends
    /\ UNCHANGED <<thread_running, thread_progress, lock_held, sub_stages_failed,
                   cancelled, batches_after_cancel>>

\* the sub-stage raises (ZeroDivisionError in run_rag_experiment's summary when
\* there is no test case, sqlite3.OperationalError, ...): generate_dataset has no
\* try, so the exception leaves it and is caught in run_all_chapters
SubStageRaises ==
    /\ rd_pc = "ch3"
    /\ sub_stages_run' = sub_stages_run \cup {sub_stage}
    /\ sub_stages_failed' = sub_stages_failed \cup {sub_stage}
    /\ sub_stage' = 0
    /\ main_progress' = 0
    /\ rd_pc' = "loop"
    /\ after_ch2_failure' = Chapter3Ends
    /\ UNCHANGED <<thread_running, thread_progress, lock_held, cancelled,
                   batches_after_cancel>>

\* Ctrl-C: KeyboardInterrupt is raised in the main thread wherever it is; main
\* prints "Stopping generation..." and its finally calls release_lock()
CtrlC ==
    /\ rd_pc \in {"loop", "ch2", "ch3"}
    /\ cancelled' = [at |-> rd_pc, sub_stage |-> sub_stage,
                     main_progress |-> main_progress]
    /\ rd_pc' = "stopped"
    /\ lock_held' = FALSE
    /\ UNCHANGED <<sub_stage, main_progress, thread_running, thread_progress,
                   sub_stages_run, sub_stages_failed, after_ch2_failure,
                   batches_after_cancel>>

RoundNext ==
    /\ UNCHANGED <<ctlVars, lockVars, predVars, ragVars, revVars, batchVars, gwVars, findVars, cacheVars, variantVars, denseVars>>
    /\ \/ RoundBegins
       \/ \E t \in Experiments : ThreadPersists(t)
       \/ \E t \in Experiments : ThreadEnds(t)
       \/ Chapter2Returns
       \/ Chapter2Fails
       \/ SubStagePersists
       \/ SubStageReturns
       \/ SubStageRaises
       \/ CtrlC

C16_SubStagesAllRun ==
    (rd_pc = "loop" /\ sub_stages_run # {}) => sub_stages_run = SubStageIndexes

\* C17: a cancellation takes effect only between rounds: the Scheduler stops
\* with no batch cut short, and each thread completes at most one batch after
\* the request.
C17_CancelAtRoundBoundary ==
    cancelled # NotCancelled =>
        /\ cancelled.at = "loop"
        /\ cancelled.main_progress \in {0, RoundBatchLen}
        /\ \A t \in Experiments : batches_after_cancel[t] <= 1

(***************************************************************************)
(* The predictor gateways: call_claude and call_codex of chapter_2.py and  *)
(* call_claude of chapter_3.py, one invocation from call to return.  Times *)
(* are in seconds; an output is the sequence of its words.                 *)
(***************************************************************************)
Gateways == {"chapter_2.call_claude", "chapter_2.call_codex", "chapter_3.call_claude"}
GatewayTimeouts == {30, 60}
NoResult == [success |-> FALSE, stdout |-> <<>>, stderr |-> "", response_time |-> 0,
             tokens_output |-> 0]

GatewayInit ==
    /\ gw_pc = "idle"
    /\ gw_call = [gateway |-> "chapter_2.call_claude", timeout |-> 30]
    /\ predictor_calls = 0
    /\ gw_cause = ""
    /\ gw_result = NoResult

\* the gateway is called: start_time is taken and subprocess.run starts the
\* predictor's command line
Invoke(gateway, timeout) ==
    /\ gw_pc # "running"
    /\ gw_pc' = "running"
    /\ gw_call' = [gateway |-> gateway, timeout |-> timeout]
    /\ predictor_calls' = 1
    /\ gw_cause' = ""
    /\ gw_result' = NoResult

\* subprocess.run returns a CompletedProcess within the timeout
SubprocessReturns(returncode, stdout, stderr, elapsed) ==
    /\ gw_pc = "running"
    /\ elapsed < gw_call.timeout
    /\ gw_pc' = "returned"
    /\ gw_cause' = IF returncode = 0 THEN "exit 0" ELSE "exit nonzero"
    /\ gw_result' = [success |-> returncode = 0, stdout |-> stdout, stderr |-> stderr,
                     response_time |-> elapsed, tokens_output |-> Len(stdout)]
    /\ UNCHANGED <<gw_call, predictor_calls>>

\* except subprocess.TimeoutExpired
TimeoutExpired ==
    /\ gw_pc = "running"
    /\ gw_pc' = "returned"
    /\ gw_cause' = "timeout"
    /\ gw_result' = [success |-> FALSE, stdout |-> <<>>, stderr |-> "timeout",
                     response_time |-> gw_call.timeout, tokens_output |-> 0]
    /\ UNCHANGED <<gw_call, predictor_calls>>

\* a gateway without the last except clause: the error of subprocess.run
\* reaches the caller
LaunchErrorPropagates(e, elapsed) ==
    /\ gw_pc = "running"
    /\ elapsed < gw_call.timeout
    /\ gw_pc' = "raised"
    /\ gw_cause' = "error"
    /\ UNCHANGED <<gw_call, predictor_calls, gw_result>>

\* except Exception as e: the command cannot be launched (FileNotFoundError,
\* PermissionError, ...) or its output cannot be decoded
LaunchError(e, elapsed) ==
    /\ gw_pc = "running"
    /\ elapsed < gw_call.timeout
    /\ gw_pc' = "returned"
    /\ gw_cause' = "error"
    /\ gw_result' = [success |-> FALSE, stdout |-> <<>>, stderr |-> e,
                     response_time |-> elapsed, tokens_output |-> 0]
    /\ UNCHANGED <<gw_call, predictor_calls>>

GatewayNext ==
    /\ UNCHANGED <<ctlVars, lockVars, predVars, ragVars, revVars, batchVars, roundVars, findVars,
                   cacheVars, variantVars, denseVars>>
    /\ \/ \E g \in Gateways, t \in GatewayTimeouts : Invoke(g, t)
       \/ \E returncode \in {0, 1}, stdout \in {<<>>, <<"A00">>, <<"A00", "B01">>},
             stderr \in {"", "API error"}, elapsed \in {1, 29} :
             SubprocessReturns(returncode, stdout, stderr, elapsed)
       \/ TimeoutExpired
       \/ \E e \in {"[Errno 2] No such file or directory", "[Errno 13] Permission denied"},
             elapsed \in {0, 1} : LaunchError(e, elapsed)

\* C18: an invocation of a gateway makes exactly one predictor call and ends
\* by returning a result, not by an exception; after a timeout the result has
\* success false, stderr "timeout" and the timeout as response time; after a
\* non-zero exit or a launch error it has success false and the error text.
C18_GatewayTotal ==
    /\ gw_pc # "raised"
    /\ gw_pc \in {"running", "returned"} => predictor_calls = 1
    /\ (gw_pc # "running" /\ gw_cause = "timeout") =>
          /\ gw_pc = "returned"
          /\ ~gw_result.success
          /\ gw_result.stderr = "timeout"
          /\ gw_result.response_time = gw_call.timeout
    /\ (gw_pc # "running" /\ gw_cause = "error") =>
          /\ gw_pc = "returned"
          /\ ~gw_result.success
          /\ gw_result.stderr \notin {"", "timeout"}
    /\ (gw_pc # "running" /\ gw_cause = "exit nonzero") =>
          /\ gw_pc = "returned"
          /\ ~gw_result.success
          /\ gw_result.stderr # "timeout"

\* a gateway returned after the predictor's command could not be launched
C18_Witness ==
    /\ gw_pc = "returned"
    /\ gw_cause = "error"
    /\ gw_call.gateway = "chapter_2.call_codex"
    /\ gw_result.stderr = "[Errno 2] No such file or directory"

(***************************************************************************)
(* The retrieval engine (rag_engine.py): MedicalCodingRAG.find_similar on  *)
(* a corpus built by _build_corpus.  A description stands for the position *)
(* of its document in the corpus; a similarity is a level 0..1.            *)
(***************************************************************************)
MaxCorpus == 4                          \* documents of the corpus
MaxTopK == 3                            \* the largest top_k asked for
IcdCodes == <<"A00", "B01">>            \* in ORDER BY code

\* _build_corpus: the real entries in code order (codes are unique), then the
\* synthetic ones in code order
Corpora ==
    LET rank(c) == CHOOSE i \in 1..Len(IcdCodes) : IcdCodes[i] = c
        Entries == [code : Range(IcdCodes), source : {"real", "synthetic"}]
    IN  {m \in UNION {[1..n -> Entries] : n \in 1..MaxCorpus} :
           \A i, j \in DOMAIN m : i < j =>
              /\ m[i].source = "synthetic" => m[j].source = "synthetic"
              /\ m[i].source = m[j].source => rank(m[i].code) <= rank(m[j].code)
              /\ (m[i].source = "real" /\ m[j].source = "real") => m[i].code # m[j].code}

FindInit ==
    /\ corpus_metadata = <<>>
    /\ similarities = <<>>
    /\ find_args = [caller |-> "", top_k |-> 0, exclude_code |-> "None",
                    source_filter |-> "None"]
    /\ top_indices = <<>>
    /\ find_results = <<>>

\* np.argsort(similarities) with the default kind (quicksort, not stable): the
\* indices in ascending similarity, equal similarities in any order
ArgSorts(sims) ==
    {p \in [DOMAIN sims -> DOMAIN sims] :
        /\ \A i, j \in DOMAIN sims : i # j => p[i] # p[j]
        /\ \A i, j \in DOMAIN sims : i < j => sims[p[i]] <= sims[p[j]]}

\* a find_similar that cuts the ranking to top_k before it applies the filters
FindSimilarCutsFirst(metadata, sims, order, top_k, exclude_code, source_filter) ==
    LET kept(idx) == /\ ~(exclude_code # "None" /\ metadata[idx].code = exclude_code)
                     /\ ~(source_filter # "None" /\ metadata[idx].source # source_filter)
        first == SubSeq(order, 1, Min(top_k, Len(order)))
        passing == SelectSeq(first, kept)
    IN  [k \in 1..Len(passing) |->
            [code |-> metadata[passing[k]].code, description |-> passing[k],
             similarity |-> sims[passing[k]], source |-> metadata[passing[k]].source]]

\* the loop of find_similar over top_indices: an entry with the excluded code or
\* another source is skipped, any other is appended, and the loop breaks once
\* len(results) >= top_k (tested after the append)
FindSimilar(metadata, sims, order, top_k, exclude_code, source_filter) ==
    LET kept(idx) == /\ ~(exclude_code # "None" /\ metadata[idx].code = exclude_code)
                     /\ ~(source_filter # "None" /\ metadata[idx].source # source_filter)
        passing == SelectSeq(order, kept)
        taken == Min(Max(top_k, 1), Len(passing))
    IN  [k \in 1..taken |->
            [code |-> metadata[passing[k]].code, description |-> passing[k],
             similarity |-> sims[passing[k]], source |-> metadata[passing[k]].source]]

\* MedicalCodingRAG(corpus_mode): the corpus is built from the store
BuildCorpus(metadata) ==
    /\ corpus_metadata = <<>>
    /\ corpus_metadata' = metadata
    /\ UNCHANGED <<similarities, find_args, top_indices, find_results>>

\* find_similar(query, top_k, exclude_code, source_filter)
\* (p is what np.argsort returned)
Query(sims, p, top_k, exclude_code, source_filter) ==
    /\ LET order == [i \in DOMAIN p |-> p[Len(p) + 1 - i]]
       IN  /\ top_indices' = order
           /\ find_results' = FindSimilar(corpus_metadata, sims, order, top_k,
                                          exclude_code, source_filter)
    /\ similarities' = sims
    /\ find_args' = [caller |-> "find_similar", top_k |-> top_k,
                     exclude_code |-> exclude_code, source_filter |-> source_filter]
    /\ UNCHANGED corpus_metadata

\* a find_similar_with_rag that returns the first top_k candidates as ranked
TopCandidates(candidates, top_k) ==
    SubSeq(candidates, 1, Min(top_k, Len(candidates)))

\* find_similar_with_rag, on the candidates find_similar returned: up to top_k
\* 'real' ones, then 'synthetic' ones for the places left, cut to top_k
MixCandidates(candidates, top_k) ==
    LET is_real(c) == c.source = "real"
        is_synthetic(c) == c.source = "synthetic"
        all_real == SelectSeq(candidates, is_real)
        real_examples == SubSeq(all_real, 1, Min(top_k, Len(all_real)))
        synthetic_examples == SelectSeq(candidates, is_synthetic)
        mixed == IF Len(real_examples) < top_k
                 THEN real_examples \o SubSeq(synthetic_examples, 1,
                         Min(top_k - Len(real_examples), Len(synthetic_examples)))
                 ELSE real_examples
    IN  SubSeq(mixed, 1, Min(top_k, Len(mixed)))

\* find_similar_with_rag(rag_engine, query_description, top_k, exclude_code)
QueryWithRag(sims, p, top_k, exclude_code) ==
    /\ LET order == [i \in DOMAIN p |-> p[Len(p) + 1 - i]]
       IN  /\ top_indices' = order
           /\ find_results' =
                 MixCandidates(FindSimilar(corpus_metadata, sims, order, top_k * 3,
                                           exclude_code, "None"), top_k)
    /\ similarities' = sims
    /\ find_args' = [caller |-> "find_similar_with_rag", top_k |-> top_k,
                     exclude_code |-> exclude_code, source_filter |-> "None"]
    /\ UNCHANGED corpus_metadata

FindNext ==
    /\ UNCHANGED <<ctlVars, lockVars, predVars, ragVars, revVars, batchVars, roundVars,
                   gwVars, cacheVars, variantVars, denseVars>>
    /\ top_indices = <<>>              \* one query in a behaviour
    /\ \/ \E metadata \in Corpora : BuildCorpus(metadata)
       \/ /\ corpus_metadata # <<>>
          /\ \E sims \in [DOMAIN corpus_metadata -> 0..1] : \E p \in ArgSorts(sims) :
             \E top_k \in 1..MaxTopK, exclude_code \in Range(IcdCodes) \cup {"None"} :
                \/ \E source_filter \in {"real", "synthetic", "None"} :
                      Query(sims, p, top_k, exclude_code, source_filter)
                \/ QueryWithRag(sims, p, top_k, exclude_code)

\* C19: find_similar with exclude_code = K returns no entry of code K, even when
\* such an entry ranks first, and what it returns are the top_k best of the
\* entries that remain: as many as top_k when that many remain, none of them
\* below an entry left out.
C19_Exclusion ==
    (find_args.caller = "find_similar" /\ find_args.exclude_code # "None") =>
        LET Remaining == {i \in DOMAIN corpus_metadata :
                            /\ corpus_metadata[i].code # find_args.exclude_code
                            /\ find_args.source_filter \in {"None", corpus_metadata[i].source}}
            Returned == {find_results[k].description : k \in DOMAIN find_results}
        IN  /\ \A k \in DOMAIN find_results : find_results[k].code # find_args.exclude_code
            /\ Returned \subseteq Remaining
            /\ Cardinality(Returned) = Len(find_results)
            /\ Len(find_results) = Min(find_args.top_k, Cardinality(Remaining))
            /\ \A i \in Returned, e \in Remaining \ Returned :
                  similarities[e] <= similarities[i]

\* the best-ranked document has the excluded code, and top_k = 2 documents of
\* the other code are returned
C19_Witness ==
    /\ find_args.caller = "find_similar"
    /\ find_args.exclude_code = "A00"
    /\ find_args.top_k = 2
    /\ Len(top_indices) = MaxCorpus
    /\ corpus_metadata[top_indices[1]].code = "A00"
    /\ similarities[top_indices[1]] > similarities[top_indices[2]]
    /\ Len(find_results) = 2

\* C21: find_similar_with_rag asks find_similar for 3 * top_k candidates and
\* returns at most top_k of them, every 'real' one before every 'synthetic' one,
\* the 'synthetic' ones only in the places the 'real' candidates leave free.
C21_DiversityMixing ==
    find_args.caller = "find_similar_with_rag" =>
        LET kept(idx) == find_args.exclude_code \in {"None"} \/
                         corpus_metadata[idx].code # find_args.exclude_code
            ranked == SelectSeq(top_indices, kept)
            Candidates == {ranked[i] : i \in 1..Min(3 * find_args.top_k, Len(ranked))}
            Real == {c \in Candidates : corpus_metadata[c].source = "real"}
            Returned == {find_results[k].description : k \in DOMAIN find_results}
        IN  /\ Len(find_results) = Min(find_args.top_k, Cardinality(Candidates))
            /\ Cardinality(Returned) = Len(find_results)
            /\ Returned \subseteq Candidates
            /\ Cardinality(Returned \cap Real) = Min(find_args.top_k, Cardinality(Real))
            /\ \A j, k \in DOMAIN find_results :
                  (find_results[j].source = "real" /\ find_results[k].source = "synthetic")
                      => j < k

\* top_k = 3 on the ranking synthetic, synthetic, real, real: both real entries
\* are returned before the one synthetic entry
C21_Witness ==
    /\ find_args.caller = "find_similar_with_rag"
    /\ find_args.top_k = 3
    /\ Len(top_indices) = 4
    /\ [i \in 1..4 |-> corpus_metadata[top_indices[i]].source] =
          <<"synthetic", "synthetic", "real", "real">>
    /\ [k \in DOMAIN find_results |-> find_results[k].source] =
          <<"real", "real", "synthetic">>

\* C20: find_similar returns its results in descending similarity, entries of
\* equal similarity in corpus insertion order (the earlier inserted first).
C20_Ordering ==
    find_args.caller = "find_similar" =>
    \A j, k \in DOMAIN find_results : j < k =>
        \/ find_results[j].similarity > find_results[k].similarity
        \/ /\ find_results[j].similarity = find_results[k].similarity
           /\ find_results[j].description < find_results[k].description

(***************************************************************************)
(* The cache of the retrieval engine (rag_engine.py): __init__,            *)
(* _load_cache, _save_cache and rebuild, for the engine of the Scheduler's *)
(* run_rag_experiment and the one of a command line run.  An artifact is   *)
(* known by the build that wrote it; a build has a number of documents.    *)
(***************************************************************************)
MaxBuilds == 3                          \* corpus builds in a behaviour
RagEngines == {"scheduler", "cli"}
Artifacts == <<"vectorizer", "embeddings", "corpus">>     \* in the order _save_cache writes
CacheSuffix(corpus_mode) == "_" \o corpus_mode

CacheInit ==
    /\ rag_cache = [suffix \in {""} \cup {CacheSuffix(mode) : mode \in CorpusModes} |->
                      [a \in Range(Artifacts) |-> NoFile]]
    /\ build_rows = <<>>
    /\ rag_engine = [e \in RagEngines |->
                [corpus_mode |-> "", vectorizer |-> 0, embeddings |-> 0, corpus |-> 0,
                 save_suffix |-> "", save_next |-> 0]]
    /\ cache_write = [corpus_mode |-> "", suffix |-> ""]

\* _load_cache(suffix): the three files exist (and can be read)
LoadCache(suffix) == \A a \in Range(Artifacts) : rag_cache[suffix][a] # NoFile

\* _build_corpus and _compute_embeddings on a store of `rows` documents, then
\* the call of _save_cache(suffix)
BuildAndSave(e, corpus_mode, rows, suffix) ==
    /\ Len(build_rows) < MaxBuilds
    /\ build_rows' = Append(build_rows, rows)
    /\ rag_engine' = [rag_engine EXCEPT ![e] =
                 [corpus_mode |-> corpus_mode, vectorizer |-> Len(build_rows) + 1,
                  embeddings |-> Len(build_rows) + 1, corpus |-> Len(build_rows) + 1,
                  save_suffix |-> suffix, save_next |-> 1]]

\* MedicalCodingRAG(corpus_mode=...): the cache of the mode is loaded as it is,
\* or the index is built and saved
Construct(e, corpus_mode, rows) ==
    /\ rag_engine[e].save_next = 0
    /\ IF LoadCache(CacheSuffix(corpus_mode))
       THEN /\ rag_engine' = [rag_engine EXCEPT ![e] =
                         [corpus_mode |-> corpus_mode,
                          vectorizer |-> rag_cache[CacheSuffix(corpus_mode)]["vectorizer"],
                          embeddings |-> rag_cache[CacheSuffix(corpus_mode)]["embeddings"],
                          corpus |-> rag_cache[CacheSuffix(corpus_mode)]["corpus"],
                          save_suffix |-> "", save_next |-> 0]]
            /\ UNCHANGED build_rows
       ELSE BuildAndSave(e, corpus_mode, rows, CacheSuffix(corpus_mode))
    /\ UNCHANGED <<rag_cache, cache_write>>

\* rebuild(): build again, then self._save_cache() with its default suffix ""
Rebuild(e, rows) ==
    /\ rag_engine[e].corpus_mode # ""
    /\ rag_engine[e].save_next = 0
    /\ BuildAndSave(e, rag_engine[e].corpus_mode, rows, "")
    /\ UNCHANGED <<rag_cache, cache_write>>

\* _save_cache writes its next file
WriteArtifact(e) ==
    /\ rag_engine[e].save_next # 0
    /\ LET a == Artifacts[rag_engine[e].save_next]
       IN  /\ rag_cache' = [rag_cache EXCEPT ![rag_engine[e].save_suffix][a] = rag_engine[e][a]]
           /\ cache_write' = [corpus_mode |-> rag_engine[e].corpus_mode,
                            suffix |-> rag_engine[e].save_suffix]
    /\ rag_engine' = [rag_engine EXCEPT ![e].save_next = IF @ = Len(Artifacts) THEN 0 ELSE @ + 1]
    /\ UNCHANGED build_rows

\* _save_cache's "except Exception": the file cannot be opened, the files that
\* follow are not written
SaveFails(e) ==
    /\ rag_engine[e].save_next # 0
    /\ rag_engine' = [rag_engine EXCEPT ![e].save_next = 0]
    /\ UNCHANGED <<rag_cache, build_rows, cache_write>>

CacheNext ==
    /\ UNCHANGED <<ctlVars, lockVars, predVars, ragVars, revVars, batchVars, roundVars,
                   gwVars, findVars, variantVars, denseVars>>
    /\ \E e \in RagEngines :
          \/ \E corpus_mode \in CorpusModes, rows \in {1, 2} : Construct(e, corpus_mode, rows)
          \/ \E rows \in {1, 2} : Rebuild(e, rows)
          \/ WriteArtifact(e)
          \/ SaveFails(e)

\* C22: every cache file written by an engine of corpus mode M belongs to the
\* artifact set of mode M.
C22_CacheKeyedByMode ==
    cache_write.corpus_mode # "" => cache_write.suffix = CacheSuffix(cache_write.corpus_mode)

\* C23: an engine that is constructed has as many vector rows as corpus texts:
\* a cache whose artifacts differ in row count is not loaded.
C23_CacheLoadAllOrNothing ==
    \A e \in RagEngines :
        rag_engine[e].corpus_mode # "" => build_rows[rag_engine[e].embeddings] = build_rows[rag_engine[e].corpus]

\* ======================================================================
\* Variant descriptions at 11 detail levels (chapter_2.py, chapter 2.1)
\* ======================================================================
NumVariantCodes == 3
VariantCodes == 1..NumVariantCodes        \* icd10_codes.id, in the order of the table scan
detail_levels == 0..10                    \* list(range(11))
VariantMaxItems == 1                      \* generate_dataset: max_items=1

\* The lists _extract_descriptions can return, as the 'level' of each object
\* (sorted by level): the eleven levels, eleven objects of which two carry
\* level 9, eleven objects numbered 1..11, ten objects, and no JSON array.
ExtractedDescriptions ==
    { [i \in 1..11 |-> i - 1],
      [i \in 1..11 |-> IF i = 11 THEN 9 ELSE i - 1],
      [i \in 1..11 |-> i],
      [i \in 1..10 |-> i - 1],
      <<>> }

VariantInit ==
    /\ generated_descriptions = [c \in VariantCodes |-> {}]
    /\ variant_pc = "idle"
    /\ codes_to_process = <<>>
    /\ variant_result = [c \in VariantCodes |-> "none"]

\* the pending query: COUNT(DISTINCT detail_level) < len(detail_levels)
PendingCodes ==
    {c \in VariantCodes :
        Cardinality(generated_descriptions[c]) < Cardinality(detail_levels)}

\* ... LIMIT max_items, with no ORDER BY: rows of the scan of icd10_codes, in an
\* order of the engine's choosing (SQLite: the same rows for the same tables)
FetchPending(max_items) ==
    LET n == Min(max_items, Cardinality(PendingCodes))
    IN  {q \in [1..n -> PendingCodes] : \A i, j \in 1..n : i # j => q[i] # q[j]}

\* _generate_variant_descriptions up to its loop; with no pending code it returns
GenerateVariantDescriptions ==
    /\ variant_pc = "idle"
    /\ PendingCodes # {}
    /\ \E q \in FetchPending(VariantMaxItems) : codes_to_process' = q
    /\ variant_pc' = "generating"
    /\ UNCHANGED <<generated_descriptions, variant_result>>

\* the end of one iteration of the loop over codes_to_process
CodeProcessed(result) ==
    /\ variant_result' = [variant_result EXCEPT ![Head(codes_to_process)] = result]
    /\ codes_to_process' = Tail(codes_to_process)
    /\ variant_pc' = IF Tail(codes_to_process) = <<>> THEN "idle" ELSE "generating"

\* _save_descriptions: INSERT OR REPLACE of every object, then commit; an
\* exception is printed and the transaction rolled back
SaveDescriptions(code_id, descriptions, saved) ==
    IF saved
    THEN generated_descriptions' =
             [generated_descriptions EXCEPT ![code_id] = @ \cup Range(descriptions)]
    ELSE UNCHANGED generated_descriptions

\* _generate_descriptions_for_code, the predictor exited with 0
GenerateDescriptionsForCode(descriptions, saved) ==
    /\ variant_pc = "generating"
    /\ IF descriptions # <<>> /\ Len(descriptions) = Cardinality(detail_levels)
       THEN /\ SaveDescriptions(Head(codes_to_process), descriptions, saved)
            /\ CodeProcessed("success")
       ELSE /\ UNCHANGED generated_descriptions
            /\ CodeProcessed("failure")

\* _generate_descriptions_for_code, the predictor exited with an error, ran
\* into the timeout of 60 s or could not be started
GenerationFails ==
    /\ variant_pc = "generating"
    /\ UNCHANGED generated_descriptions
    /\ CodeProcessed("failure")

VariantNext ==
    /\ UNCHANGED <<ctlVars, lockVars, predVars, ragVars, revVars, batchVars, roundVars,
                   gwVars, findVars, cacheVars, denseVars>>
    /\ \/ GenerateVariantDescriptions
       \/ \E descriptions \in ExtractedDescriptions, saved \in BOOLEAN :
             GenerateDescriptionsForCode(descriptions, saved)
       \/ GenerationFails

\* C27: under the repeated rounds of the scheduler, when the generation for one
\* code never succeeds, every other code that lacks detail levels is eventually
\* fetched by a round.
C27_NoHeadOfLineBlocking ==
    \A c \in VariantCodes : \A d \in VariantCodes \ {c} :
        [](variant_result[c] # "success")
            => ((d \in PendingCodes) ~> (d \in Range(codes_to_process)))

\* C28: a code for which _generate_descriptions_for_code returned success is
\* not returned by the pending query any more.
C28_SuccessImpliesDone ==
    \A c \in VariantCodes : variant_result[c] = "success" => c \notin PendingCodes

\* ======================================================================
\* The dense-variant tables (chapter_3.py 3.2 and 3.4, chapter_3_3_*.py)
\* ======================================================================
NumDenseCodes == 2
DenseCodes == 1..NumDenseCodes            \* the billable codes of icd10_codes
DenseMaxCodes == 5                        \* generate_dataset: max_codes=5
MaxDenseItems == 1                        \* variants predicted by one call
MaxDensePredictions == 2                  \* rows of dense_rag_predictions

\* the index of the variant whose INSERT raises (20: none does)
FailingInserts == {0, 12, 20}

DenseInit ==
    /\ dv_schema = "none"
    /\ dense_variants = {}
    /\ dense_txn = {}
    /\ dense_codes = <<>>
    /\ drp_schema = "none"
    /\ dense_rag_predictions = {}

\* the rows inserted for the first n variants of the response: enumerate(variants)
DenseRows(code_id, n) ==
    {[code_id |-> code_id,
      variant_type |-> IF i < 10 THEN "short" ELSE "long",
      variant_index |-> IF i < 10 THEN i ELSE i - 10] : i \in 0..(n - 1)}

\* what a query on db.conn reads: the committed rows and those of its transaction
VisibleVariants == dense_variants \cup dense_txn

\* generate_dense_variants up to its loop: CREATE TABLE IF NOT EXISTS, commit,
\* then the codes with no row in dense_variants, LIMIT max_codes
GenerateDenseVariants(max_codes) ==
    /\ dense_codes = <<>>
    /\ dv_schema' = IF dv_schema = "none" THEN "variant_type" ELSE dv_schema
    /\ dense_variants' = VisibleVariants
    /\ dense_txn' = {}
    /\ LET pending == {c \in DenseCodes : \A r \in VisibleVariants : r.code_id # c}
           n == Min(max_codes, Cardinality(pending))
       IN  /\ pending # {}
           /\ \E q \in [1..n -> pending] :
                 /\ \A i, j \in 1..n : i # j => q[i] # q[j]
                 /\ dense_codes' = q
    /\ UNCHANGED <<drp_schema, dense_rag_predictions>>

\* one iteration: call_claude failed, the response is no JSON or its array has
\* not 20 elements ("continue", or the except that counts an error)
DenseGenerationFails ==
    /\ dense_codes # <<>>
    /\ dense_codes' = Tail(dense_codes)
    /\ UNCHANGED <<dv_schema, dense_variants, dense_txn, drp_schema, dense_rag_predictions>>

\* one iteration with 20 variants: the INSERTs in the order of the array, then
\* conn.commit(); an INSERT that raises ends the iteration in the except, which
\* counts an error. The table of chapter_3_3 has no column variant_type: the
\* first INSERT raises.
StoreDenseVariants(failing) ==
    /\ dense_codes # <<>>
    /\ dv_schema = "detail_level" => failing = 0
    /\ IF failing = 20
       THEN /\ dense_variants' = VisibleVariants \cup DenseRows(Head(dense_codes), 20)
            /\ dense_txn' = {}
       ELSE /\ dense_txn' = dense_txn \cup DenseRows(Head(dense_codes), failing)
            /\ UNCHANGED dense_variants
    /\ dense_codes' = Tail(dense_codes)
    /\ UNCHANGED <<dv_schema, drp_schema, dense_rag_predictions>>

\* chapter_3_3_dense_variants.ensure_table_exists, on a connection of its own
\* (DROP TABLE waits for the transaction of db.conn)
EnsureTableExists ==
    /\ dense_txn = {}
    /\ dv_schema # "detail_level"
    /\ dv_schema' = "detail_level"
    /\ dense_variants' = {}
    /\ UNCHANGED <<dense_txn, dense_codes, drp_schema, dense_rag_predictions>>

\* the sets of at most k elements of S
RECURSIVE SubsetsUpTo(_, _)
SubsetsUpTo(S, k) ==
    IF k = 0 THEN {{}}
    ELSE {T \cup {r} : T \in SubsetsUpTo(S, k - 1), r \in S} \cup {{}}

\* run_dense_rag_experiment on db.conn, between two runs of
\* generate_dense_variants: the schema check, the commit, then one committed
\* row per variant tested: those with no prediction of the model, ORDER BY
\* RANDOM() LIMIT max_items
RunDenseRagExperiment(model_name, max_items) ==
    /\ dense_codes = <<>>
    /\ dv_schema # "none"
    /\ drp_schema' = "model_name"
    /\ dense_variants' = VisibleVariants
    /\ dense_txn' = {}
    /\ LET kept == IF drp_schema = "no model_name" THEN {} ELSE dense_rag_predictions
           candidates == {r \in VisibleVariants :
                            [dense_variant |-> r, model_name |-> model_name] \notin kept}
       IN  /\ Cardinality(kept) + max_items <= MaxDensePredictions
           /\ \E test_cases \in SubsetsUpTo(candidates, max_items) :
                 /\ Cardinality(test_cases) = Min(max_items, Cardinality(candidates))
                 /\ dense_rag_predictions' =
                       kept \cup {[dense_variant |-> r, model_name |-> model_name] :
                                     r \in test_cases}
    /\ UNCHANGED <<dv_schema, dense_codes>>

\* chapter_3_3_rag_test.run_rag_predictions, on a connection of its own: CREATE
\* TABLE IF NOT EXISTS without model_name, then a row per committed dense
\* variant; in the table of chapter_3 model_name is NOT NULL and the INSERT raises
RunRagPredictions ==
    /\ dv_schema # "none"
    /\ drp_schema # "model_name"
    /\ dense_txn = {}
    /\ drp_schema' = "no model_name"
    /\ dense_rag_predictions' =
          dense_rag_predictions \cup
             {[dense_variant |-> r, model_name |-> "NULL"] : r \in dense_variants}
    /\ UNCHANGED <<dv_schema, dense_variants, dense_txn, dense_codes>>

DenseNext ==
    /\ UNCHANGED <<ctlVars, lockVars, predVars, ragVars, revVars, batchVars, roundVars,
                   gwVars, findVars, cacheVars, variantVars>>
    /\ \/ GenerateDenseVariants(DenseMaxCodes)
       \/ DenseGenerationFails
       \/ \E failing \in FailingInserts : StoreDenseVariants(failing)
       \/ EnsureTableExists
       \/ \E max_items \in 1..MaxDenseItems : RunDenseRagExperiment("claude", max_items)
       \/ RunRagPredictions

\* C29: between the runs of generate_dense_variants every catalog code has
\* either no committed row in dense_variants or exactly the 20 rows of its
\* variants (short 0..9 and long 0..9).
C29_DenseAllOrNothing ==
    dense_codes = <<>> =>
        \A c \in DenseCodes :
            LET rows == {r \in dense_variants : r.code_id = c}
            IN  rows = {} \/ rows = DenseRows(c, 20)

\* C30: no step removes a committed row of dense_variants or of
\* dense_rag_predictions.
C30_NoStageDeletesResults ==
    [][/\ dense_variants \subseteq dense_variants'
       /\ dense_rag_predictions \subseteq dense_rag_predictions']_vars

Init == CtlInit /\ LockInit /\ PredInit /\ RagInit /\ RevInit /\ BatchInit /\ RoundInit /\ GatewayInit /\ FindInit /\ CacheInit
        /\ VariantInit /\ DenseInit

SpecLock == Init /\ [][LockNext]_vars

SpecPred == Init /\ [][PredNext]_vars

SpecRag == Init /\ [][RagNext]_vars

SpecRev == Init /\ [][RevNext]_vars

SpecBatch == Init /\ [][BatchNext]_vars

SpecRound == Init /\ [][RoundNext]_vars

SpecGateway == Init /\ [][GatewayNext]_vars

SpecFind == Init /\ [][FindNext]_vars

SpecCache == Init /\ [][CacheNext]_vars

SpecVariant == Init /\ [][VariantNext]_vars

SpecDense == Init /\ [][DenseNext]_vars

\* the scheduler starts round after round, and subprocess.run returns or is
\* ended by its timeout
SpecVariantLive == Init /\ [][VariantNext]_vars /\ WF_vars(VariantNext)

CtlNext ==
    /\ UNCHANGED <<lockVars, predVars, ragVars, revVars, batchVars, roundVars, gwVars, findVars, cacheVars, variantVars, denseVars>>
    /\ \/ StartByScheduler
       \/ StartByCli
       \/ StartPlugin
       \/ RequestBatch
       \/ EndBatch
       \/ StageEnds

SpecCtl == Init /\ [][CtlNext]_vars

(***************************************************************************)
(* Claims about the controller, checked under SpecCtl.                     *)
(***************************************************************************)
AdjustCalled == ctl_pc # "off" /\ adj_rate # NoRate

\* C4: on a controller constructed by a stage driver, after every sequence of
\* adjust calls the current batch size is at least 1 and at most max_batch_size.
C4_SizeWithinBounds ==
    AdjustCalled =>
        /\ batch_manager.current_batch_size >= 1
        /\ batch_manager.current_batch_size <= batch_manager.max_batch_size

\* C8: in every stage invocation driven by the Scheduler (chapter_2.generate_dataset)
\* or by PluginAdapter, the first batch is requested with batch size 1.
C8_FirstBatchIsOne ==
    (ctl_driver \in {"scheduler", "plugin"} /\ first_batch # 0) => first_batch = 1

\* C9: an adjust call with rate < 0.5 sets the size to max(1, floor(size/2)) and
\* both counters to 0, whatever they were; from size 10, adjust(0.3) gives 5.
C9_SevereRule ==
    /\ (AdjustCalled /\ 2 * adj_rate[1] < adj_rate[2]) =>
            /\ batch_manager.current_batch_size
                   = (IF adj_before.current_batch_size \div 2 >= 1
                      THEN adj_before.current_batch_size \div 2 ELSE 1)
            /\ batch_manager.consecutive_successes = 0
            /\ batch_manager.consecutive_failures = 0
            /\ batch_manager.max_batch_size = adj_before.max_batch_size
    /\ (AdjustCalled /\ adj_rate = <<3, 10>> /\ adj_before.current_batch_size = 10) =>
            batch_manager.current_batch_size = 5

\* C9 witness: adjust(0.3) from size 10 with a success streak of 2 gave size 5
C9_Witness ==
    /\ AdjustCalled
    /\ adj_rate = <<3, 10>>
    /\ adj_before.current_batch_size = 10
    /\ adj_before.consecutive_successes = 2
    /\ batch_manager.current_batch_size = 5

\* C10: every adjust call with 0.5 <= rate < 0.7 decreases the size by 2 (floor 1)
\* on that very call, resets the success counter and leaves the failure counter
\* at 0; from size 10 the rates 0.6, 0.6 give 8 and then 6.
C10_MildRule ==
    /\ (AdjustCalled /\ 2 * adj_rate[1] >= adj_rate[2]
                     /\ 10 * adj_rate[1] < 7 * adj_rate[2]) =>
            /\ batch_manager.current_batch_size
                   = (IF adj_before.current_batch_size - 2 >= 1
                      THEN adj_before.current_batch_size - 2 ELSE 1)
            /\ batch_manager.consecutive_successes = 0
            /\ batch_manager.consecutive_failures = 0
            /\ batch_manager.max_batch_size = adj_before.max_batch_size
    /\ (AdjustCalled /\ adj_mild_from = 10 /\ 5 * adj_rate[1] = 3 * adj_rate[2]) =>
            (adj_before.current_batch_size = 8 /\ batch_manager.current_batch_size = 6)

\* C10 witness: two calls with rate 0.6 in a row from size 10, with a success
\* streak before the first: 10 -> 8 -> 6
C10_Witness ==
    /\ AdjustCalled
    /\ adj_mild_from = 10
    /\ adj_rate = <<3, 5>>
    /\ adj_before.current_batch_size = 8
    /\ batch_manager.current_batch_size = 6

\* the last adjust call had rate >= 0.9
HighRate == 10 * adj_rate[1] >= 9 * adj_rate[2]

\* C11: the size grows only on the third call of a run of calls with rate >= 0.9;
\* that call sets the size to min(max_batch_size, size + 1) and the success
\* counter to 0, the first two leave the size alone; from size 5 with ceiling
\* 20 a run of three such calls gives 5, 5, 6.
C11_GrowRule ==
    AdjustCalled =>
        /\ batch_manager.current_batch_size > adj_before.current_batch_size
              => (HighRate /\ adj_high_run = 3)
        /\ (HighRate /\ adj_high_run = 3) =>
              /\ batch_manager.current_batch_size
                    = (IF adj_before.current_batch_size + 1 <= adj_before.max_batch_size
                       THEN adj_before.current_batch_size + 1
                       ELSE adj_before.max_batch_size)
              /\ batch_manager.consecutive_successes = 0
              /\ batch_manager.consecutive_failures = 0
        /\ (HighRate /\ adj_high_run \in {1, 2}) =>
              /\ batch_manager.current_batch_size = adj_run_from
              /\ batch_manager.consecutive_successes = adj_high_run
        /\ (HighRate /\ adj_high_run = 3 /\ adj_run_from = 5
                     /\ adj_before.max_batch_size = 20) =>
              (adj_before.current_batch_size = 5 /\ batch_manager.current_batch_size = 6)

\* C11 witness: the third good batch in a row from size 5 with ceiling 20 gave 6
C11_Witness ==
    /\ AdjustCalled
    /\ HighRate
    /\ adj_high_run = 3
    /\ adj_run_from = 5
    /\ adj_before.max_batch_size = 20
    /\ batch_manager.current_batch_size = 6

\* C12: an adjust call with 0.7 <= rate < 0.9 leaves the size as it was and sets
\* both counters to 0, so that the growth streak starts over.
C12_NeutralBand ==
    (AdjustCalled /\ 10 * adj_rate[1] >= 7 * adj_rate[2] /\ ~HighRate) =>
        /\ batch_manager.current_batch_size = adj_before.current_batch_size
        /\ batch_manager.max_batch_size = adj_before.max_batch_size
        /\ batch_manager.consecutive_successes = 0
        /\ batch_manager.consecutive_failures = 0
        /\ adj_high_run = 0

\* C12 witness: a neutral batch after two good ones: the streak of 2 is gone
C12_Witness ==
    /\ AdjustCalled
    /\ adj_rate = <<4, 5>>
    /\ adj_before.consecutive_successes = 2
    /\ batch_manager.consecutive_successes = 0
    /\ batch_manager.current_batch_size = adj_before.current_batch_size

====
